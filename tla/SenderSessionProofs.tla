------------------------ MODULE SenderSessionProofs ------------------------
(* What a session promises its application, for any offer, answer, number of  *)
(* calls and capacity of the command channel.                                 *)
EXTENDS SenderSession, WellFoundedInduction, FiniteSetTheorems, TLAPS

\* Sequences of calls: what is appended, and what is left behind the head.
LEMMA AppendFacts ==
  ASSUME NEW S, NEW s \in Seq(S), NEW x \in S
  PROVE  /\ Append(s, x) \in Seq(S) /\ Range(Append(s, x)) = Range(s) \cup {x}
         /\ Len(s) \in Nat /\ Len(Append(s, x)) = Len(s) + 1 /\ Append(s, x)[Len(s) + 1] = x
         /\ \A i \in 1 .. Len(s) : Append(s, x)[i] = s[i]
         /\ \A i \in 1 .. Len(s) + 1 : i \in 1 .. Len(s) \/ i = Len(s) + 1
         /\ DOMAIN s = 1 .. Len(s) /\ DOMAIN Append(s, x) = 1 .. Len(s) + 1
         /\ IsInjective(s) /\ x \notin Range(s) => IsInjective(Append(s, x))
  <1> DEFINE a == Append(s, x)
  <1>1. /\ Len(s) \in Nat /\ DOMAIN s = 1 .. Len(s) /\ DOMAIN a = 1 .. Len(s) + 1 /\ a \in Seq(S)
        /\ Len(a) = Len(s) + 1 /\ a[Len(s) + 1] = x /\ Len(s) + 1 \in 1 .. Len(s) + 1
        /\ \A i \in 1 .. Len(s) : a[i] = s[i] /\ i \in 1 .. Len(s) + 1
        /\ \A i \in 1 .. Len(s) + 1 : i \in 1 .. Len(s) \/ i = Len(s) + 1
    OBVIOUS
  <1> HIDE DEF a
  <1>2. \A y \in Range(a) : y \in Range(s) \cup {x}
    BY <1>1, Zenon DEF Range
  <1>3. \A y \in Range(s) : y \in Range(a)
    BY <1>1, Zenon DEF Range
  <1>4. x \in Range(a)
    BY <1>1, Zenon DEF Range
  <1>5. IsInjective(s) /\ x \notin Range(s) => IsInjective(a)
    BY <1>1, Zenon DEF IsInjective, Range
  <1>6. Range(a) = Range(s) \cup {x}
    BY <1>2, <1>3, <1>4, Zenon
  <1> QED
    BY <1>1, <1>5, <1>6, Zenon DEF a

\* Sequences of calls: the head, and what is left behind it.
LEMMA TailFacts ==
  ASSUME NEW S, NEW s \in Seq(S), s # << >>, IsInjective(s)
  PROVE  /\ Head(s) \in S /\ Head(s) \in Range(s) /\ Tail(s) \in Seq(S) /\ Head(s) = s[1] /\ 1 \in DOMAIN s
         /\ Range(Tail(s)) = Range(s) \ {Head(s)} /\ IsInjective(Tail(s))
         /\ \A i \in DOMAIN Tail(s) : i + 1 \in DOMAIN s /\ Tail(s)[i] = s[i + 1] /\ i \in Nat
  <1>1. /\ Len(s) \in Nat \ {0} /\ Head(s) = s[1] /\ Tail(s) \in Seq(S) /\ DOMAIN s = 1 .. Len(s)
        /\ DOMAIN Tail(s) = 1 .. Len(s) - 1
        /\ \A i \in 1 .. Len(s) - 1 : Tail(s)[i] = s[i + 1] /\ i + 1 \in 1 .. Len(s) /\ i \in Nat
    OBVIOUS
  <1>2. \A i, j \in 1 .. Len(s) : s[i] = s[j] => i = j
    BY <1>1, Zenon DEF IsInjective
  <1>3. \A i \in 2 .. Len(s) : i - 1 \in 1 .. Len(s) - 1 /\ s[i] = Tail(s)[i - 1] /\ s[i] # s[1]
    BY <1>1, <1>2
  <1>4. IsInjective(Tail(s))
    BY <1>1, <1>2 DEF IsInjective
  <1>5. Range(Tail(s)) \subseteq Range(s) \ {Head(s)}
    BY <1>1, <1>2 DEF Range
  <1>6. ASSUME NEW y \in Range(s), y # Head(s)
        PROVE  y \in Range(Tail(s))
    <2>1. PICK i \in 1 .. Len(s) : y = s[i]
      BY <1>1, <1>6, Zenon DEF Range
    <2>2. i \in 2 .. Len(s)
      BY <1>1, <1>6, <2>1
    <2>3. i - 1 \in DOMAIN Tail(s) /\ y = Tail(s)[i - 1]
      BY <1>1, <1>3, <2>1, <2>2, Zenon
    <2> QED
      BY <2>3, Zenon DEF Range
  <1>7. 1 \in DOMAIN s /\ s[1] \in S
    BY <1>1
  <1>8. Head(s) \in Range(s)
    BY <1>1, <1>7, Zenon DEF Range
  <1>9. Range(Tail(s)) = Range(s) \ {Head(s)}
    BY <1>5, <1>6, Zenon
  <1> QED
    BY <1>1, <1>4, <1>7, <1>8, <1>9, Zenon

\* A non-empty set of naturals has a least element.
LEMMA LeastNat == ASSUME NEW T \in SUBSET Nat, T # {}
   PROVE \E n \in T : \A m \in T : ~(m < n)
  <1>1. PICK x \in T : \A y \in T : ~ (<<y, x>> \in OpToRel(<, Nat))
    BY NatLessThanWellFounded, WFMin, Zenon
  <1> WITNESS x \in T
  <1> QED BY <1>1, Zenon DEF OpToRel
-----------------------------------------------------------------------------
(* The offer.                                                                 *)

Configured == [type : StreamTypes, target_delay : Nat, sound : BOOLEAN]
Sources == AudioSources \cup VideoSources
Offered == [stream_type : StreamTypes, sync_source : Sources, target_delay : Nat]

\* The recursive function of of_type, up to n.
Selection(cs, type, n, k) ==
  k = [i \in 0 .. n |-> IF i = 0 THEN << >> ELSE k[i - 1] \o (IF cs[i].type = type THEN <<cs[i]>> ELSE << >>)]

\* The recursive function of of_type exists.
LEMMA SelectionExists ==
  ASSUME NEW cs \in Seq(Configured), NEW type, NEW n \in Nat, n <= Len(cs)
  PROVE  \E k \in [0 .. n -> Seq(Configured)] : Selection(cs, type, n, k)
  <1> DEFINE Good(m) == \E k \in [0 .. m -> Seq(Configured)] : Selection(cs, type, m, k)
             T == {m \in Nat : m <= Len(cs) /\ ~Good(m)}
  <1>1. SUFFICES ASSUME T # {} PROVE FALSE
    OBVIOUS
  <1>2. PICK m \in T : \A x \in T : ~(x < m)
    BY <1>1, LeastNat, Zenon
  <1>3. Good(0)
    <2> DEFINE k == [i \in 0 .. 0 |-> << >>]
    <2>1. k \in [0 .. 0 -> Seq(Configured)]
      OBVIOUS
    <2>2. Selection(cs, type, 0, k)
      BY DEF Selection
    <2> QED
      BY <2>1, <2>2, Zenon
  <1> HIDE DEF Good
  <1>4. m \in Nat /\ m # 0 /\ m - 1 \in Nat /\ m - 1 < m /\ m - 1 <= Len(cs) /\ m \in 1 .. Len(cs)
    <2>1. m \in Nat /\ m <= Len(cs) /\ m # 0 /\ Len(cs) \in Nat
      BY <1>2, <1>3
    <2> QED
      BY <2>1
  <1>5. PICK k \in [0 .. m - 1 -> Seq(Configured)] : Selection(cs, type, m - 1, k)
    BY <1>2, <1>4, Zenon DEF Good
  <1> DEFINE v == k[m - 1] \o (IF cs[m].type = type THEN <<cs[m]>> ELSE << >>)
             h == [i \in 0 .. m |-> IF i = m THEN v ELSE k[i]]
  <1>6. v \in Seq(Configured)
    <2>1. k[m - 1] \in Seq(Configured) /\ cs[m] \in Configured
      BY <1>4
    <2>2. <<cs[m]>> \in Seq(Configured) /\ << >> \in Seq(Configured)
      BY <2>1
    <2>3. k[m - 1] \o <<cs[m]>> \in Seq(Configured) /\ k[m - 1] \o << >> \in Seq(Configured)
      BY <2>1, <2>2
    <2> QED
      BY <2>3, Zenon
  <1>7. \A i \in 0 .. m : i # m => i \in 0 .. m - 1
    BY <1>4
  <1> HIDE DEF v
  <1>8. h \in [0 .. m -> Seq(Configured)]
    BY <1>6, <1>7, Zenon
  <1>9. ASSUME NEW i \in 0 .. m
        PROVE  h[i] = IF i = 0 THEN << >> ELSE h[i - 1] \o (IF cs[i].type = type THEN <<cs[i]>> ELSE << >>)
    <2>1. i # 0 => i - 1 \in 0 .. m /\ i - 1 # m /\ h[i - 1] = k[i - 1]
      BY <1>4
    <2>2. CASE i = m
      BY <1>4, <2>1, <2>2, Zenon DEF v
    <2>3. CASE i # m
      <3>1. k[i] = IF i = 0 THEN << >> ELSE k[i - 1] \o (IF cs[i].type = type THEN <<cs[i]>> ELSE << >>)
        BY <1>5, <1>7, <2>3, Zenon DEF Selection
      <3> QED
        BY <2>1, <2>3, <3>1, Zenon
    <2> QED
      BY <2>2, <2>3, Zenon
  <1>10. Selection(cs, type, m, h)
    BY <1>9, Zenon DEF Selection
  <1>11. Good(m)
    BY <1>8, <1>10, Zenon DEF Good
  <1> QED
    BY <1>2, <1>11, Zenon

\* `at` takes the configurations of one type among the first n to their places
\* in s, in order and without a gap.
Placed(cs, type, n, s, at) ==
  /\ at \in [{i \in 1 .. n : cs[i].type = type} -> 1 .. Len(s)]
  /\ \A i, j \in DOMAIN at : i < j => at[i] < at[j]
  /\ \A l \in 1 .. Len(s) : \E i \in DOMAIN at : at[i] = l
  /\ \A i \in DOMAIN at : s[at[i]] = cs[i]

\* One more configuration is put last if it is of the type, and left out if not.
LEMMA PlacedNext ==
  ASSUME NEW cs \in Seq(Configured), NEW type, NEW m \in 1 .. Len(cs), NEW s \in Seq(Configured),
         NEW at, Placed(cs, type, m - 1, s, at)
  PROVE  \E next : Placed(cs, type, m, s \o (IF cs[m].type = type THEN <<cs[m]>> ELSE << >>), next)
  <1> DEFINE D == {i \in 1 .. m - 1 : cs[i].type = type}
             E == {i \in 1 .. m : cs[i].type = type}
  <1>1. m \in Nat /\ \A i \in 1 .. m : i # m => i \in 1 .. m - 1 /\ i < m
    OBVIOUS
  <1>2. \A i \in 1 .. m - 1 : i \in 1 .. m /\ i # m /\ i < m /\ ~(m < i) /\ ~(m < m) /\ m \in 1 .. m
    OBVIOUS
  <1>3. /\ at \in [D -> 1 .. Len(s)] /\ DOMAIN at = D
        /\ \A i, j \in D : i < j => at[i] < at[j]
        /\ \A l \in 1 .. Len(s) : \E i \in D : at[i] = l
        /\ \A i \in D : s[at[i]] = cs[i]
    BY Zenon DEF Placed
  <1>4. CASE cs[m].type = type
    <2> DEFINE x == cs[m]
               t == s \o <<x>>
               next == [i \in E |-> IF i = m THEN Len(s) + 1 ELSE at[i]]
    <2>1. /\ Len(s) \in Nat /\ Len(t) = Len(s) + 1 /\ t[Len(s) + 1] = x
          /\ \A l \in 1 .. Len(s) : t[l] = s[l] /\ l < Len(s) + 1 /\ l \in 1 .. Len(s) + 1
          /\ Len(s) + 1 \in 1 .. Len(s) + 1
          /\ \A l \in 1 .. Len(s) + 1 : l \in 1 .. Len(s) \/ l = Len(s) + 1
      OBVIOUS
    <2>2. m \in E /\ m \notin D /\ \A i : i \in E <=> i \in D \/ i = m
      <3>1. m \in 1 .. m /\ m \notin 1 .. m - 1 /\ \A i \in 1 .. m - 1 : i \in 1 .. m
        OBVIOUS
      <3> QED
        BY <1>1, <1>4, <3>1, Zenon
    <2>3. \A i \in D : i < m /\ ~(m < i) /\ i # m
      BY <1>2, Zenon
    <2>4. ~(m < m)
      OBVIOUS
    <2> HIDE DEF D, E, t
    <2>5. next \in [E -> 1 .. Len(t)] /\ DOMAIN next = E
      BY <1>3, <2>1, <2>2, Zenon
    <2>6. next[m] = Len(s) + 1 /\ \A i \in D : next[i] = at[i] /\ at[i] \in 1 .. Len(s)
      BY <1>3, <2>2, Zenon
    <2> HIDE DEF next
    <2>7. ASSUME NEW i \in E, NEW j \in E, i < j PROVE next[i] < next[j]
      <3>1. i \in D
        BY <2>2, <2>3, <2>4, <2>7, Zenon
      <3>2. CASE j = m
        BY <2>1, <2>6, <3>1, <3>2, Zenon
      <3>3. CASE j \in D
        BY <1>3, <2>6, <2>7, <3>1, <3>3, Zenon
      <3> QED
        BY <2>2, <3>2, <3>3, Zenon
    <2>8. \A l \in 1 .. Len(t) : \E i \in E : next[i] = l
      BY <1>3, <2>1, <2>2, <2>6, Zenon
    <2>9. \A i \in E : t[next[i]] = cs[i]
      BY <1>3, <2>1, <2>2, <2>6, ZenonT(40)
    <2>10. Placed(cs, type, m, t, next)
      BY <2>5, <2>7, <2>8, <2>9, Zenon DEF Placed, E
    <2> QED
      BY <1>4, <2>10, Zenon DEF t
  <1>5. CASE cs[m].type # type
    <2>1. D = E
      <3>1. \A i \in D : i \in E
        BY <1>2, Zenon
      <3>2. \A i \in E : i \in D
        BY <1>1, <1>5, Zenon
      <3> QED
        BY <3>1, <3>2, Zenon
    <2>2. s \o << >> = s
      OBVIOUS
    <2>3. Placed(cs, type, m, s, at)
      BY <1>3, <2>1, Zenon DEF Placed
    <2> QED
      BY <1>5, <2>2, <2>3, Zenon
  <1> QED
    BY <1>4, <1>5, Zenon

\* of_type returns the configurations of its type in their order.
LEMMA OfType ==
  ASSUME NEW cs \in Seq(Configured), NEW type
  PROVE  /\ of_type(cs, type) \in Seq(Configured)
         /\ \E at : Placed(cs, type, Len(cs), of_type(cs, type), at)
  <1>1. Len(cs) \in Nat /\ Len(cs) <= Len(cs)
    OBVIOUS
  <1>2. \E k : Selection(cs, type, Len(cs), k)
    BY <1>1, SelectionExists, Zenon
  <1>3. PICK k : Selection(cs, type, Len(cs), k) /\ of_type(cs, type) = k[Len(cs)]
    BY <1>2, Zenon DEF Selection, of_type
  <1> DEFINE Good(m) == k[m] \in Seq(Configured) /\ \E at : Placed(cs, type, m, k[m], at)
             T == {m \in Nat : m <= Len(cs) /\ ~Good(m)}
  <1>4. T = {}
    <2> SUFFICES ASSUME T # {} PROVE FALSE
      OBVIOUS
    <2>1. PICK m \in T : \A x \in T : ~(x < m)
      BY LeastNat, Zenon
    <2>2. m \in Nat /\ m <= Len(cs) /\ ~Good(m)
      BY <2>1, Zenon
    <2>3. m \in 0 .. Len(cs)
      BY <1>1, <2>2
    <2>4. k[m] = IF m = 0 THEN << >> ELSE k[m - 1] \o (IF cs[m].type = type THEN <<cs[m]>> ELSE << >>)
      BY <1>3, <2>3, Zenon DEF Selection
    <2>5. ASSUME m = 0 PROVE Good(m)
      <3>1. k[m] = << >> /\ << >> \in Seq(Configured) /\ Len(<< >>) = 0
        BY <2>4, <2>5
      <3>2. {i \in 1 .. 0 : cs[i].type = type} = {} /\ 1 .. 0 = {}
        OBVIOUS
      <3>3. Placed(cs, type, 0, << >>, [i \in {} |-> 0])
        BY <3>2 DEF Placed
      <3> QED
        BY <2>5, <3>1, <3>3, Zenon
    <2>6. m # 0
      BY <2>2, <2>5, Zenon
    <2>7. m - 1 \in Nat /\ m - 1 < m /\ m - 1 <= Len(cs) /\ m \in 1 .. Len(cs)
      BY <1>1, <2>2, <2>6
    <2>8. Good(m - 1) /\ cs[m] \in Configured
      <3>1. Good(m - 1)
        BY <2>1, <2>7, Zenon
      <3> QED
        BY <2>7, <3>1
    <2>9. k[m - 1] \o <<cs[m]>> \in Seq(Configured) /\ k[m - 1] \o << >> \in Seq(Configured)
      BY <2>8
    <2>10. \E at : Placed(cs, type, m, k[m], at)
      <3>1. PICK at : Placed(cs, type, m - 1, k[m - 1], at)
        BY <2>8, Zenon
      <3>2. k[m - 1] \in Seq(Configured)
        BY <2>8, Zenon
      <3>3. \E at2 : Placed(cs, type, m, k[m - 1] \o (IF cs[m].type = type THEN <<cs[m]>> ELSE << >>), at2)
        BY <2>7, <3>1, <3>2, PlacedNext, Zenon
      <3> QED
        BY <2>4, <2>6, <3>3, Zenon
    <2> QED
      BY <2>2, <2>4, <2>6, <2>9, <2>10, Zenon
  <1> QED
    BY <1>1, <1>3, <1>4, Zenon

\* What build returns is what it has validated.
LEMMA BuildFacts ==
  ASSUME NEW cs \in Seq(Configured), NEW o \in build(cs)
  PROVE  \A i \in DOMAIN o : o[i] \in Offered /\ valid_target_delay(o[i].target_delay)
  <1> DEFINE all == of_type(cs, "Audio") \o of_type(cs, "Video")
  <1>1. all \in Seq(Configured)
    <2>1. of_type(cs, "Audio") \in Seq(Configured) /\ of_type(cs, "Video") \in Seq(Configured)
      BY OfType, Zenon
    <2> QED
      BY <2>1
  <1> HIDE DEF all
  <1>2. PICK sources \in [DOMAIN all -> Sources] :
          /\ o = [i \in DOMAIN all |-> stream_offer(all[i], sources[i])]
          /\ \A i \in DOMAIN all : valid_target_delay(all[i].target_delay)
    BY Zenon DEF build, all, Sources
  <1>3. ASSUME NEW i \in DOMAIN all
        PROVE  o[i] \in Offered /\ o[i].target_delay = all[i].target_delay
    <2>1. all[i] \in Configured /\ sources[i] \in Sources
      BY <1>1, <1>2
    <2> QED
      BY <1>2, <2>1, Zenon DEF stream_offer, Offered, Configured
  <1>4. DOMAIN o = DOMAIN all
    BY <1>2, Zenon
  <1> QED
    BY <1>2, <1>3, <1>4, Zenon

\* An offer has every configuration once, each type in its order and the audio
\* ones first.
LEMMA BuildPlaces ==
  ASSUME NEW cs \in Seq(Configured), NEW o \in build(cs)
  PROVE  /\ Len(o) = Len(cs) /\ DOMAIN o = 1 .. Len(o)
         /\ \E at \in Bijection(DOMAIN cs, DOMAIN o) :
              /\ \A i \in DOMAIN cs : /\ o[at[i]].stream_type = cs[i].type
                                      /\ o[at[i]].target_delay = cs[i].target_delay
              /\ \A i, j \in DOMAIN cs : cs[i].type = cs[j].type /\ i < j => at[i] < at[j]
              /\ \A i, j \in DOMAIN cs : cs[i].type = "Audio" /\ cs[j].type # "Audio" => at[i] < at[j]
  <1> DEFINE u == of_type(cs, "Audio")
             w == of_type(cs, "Video")
             all == u \o w
             A == {i \in 1 .. Len(cs) : cs[i].type = "Audio"}
             V == {i \in 1 .. Len(cs) : cs[i].type = "Video"}
  <1>1. u \in Seq(Configured) /\ w \in Seq(Configured)
    BY OfType, Zenon
  <1>2. PICK a : Placed(cs, "Audio", Len(cs), u, a)
    BY OfType, Zenon
  <1>3. PICK v : Placed(cs, "Video", Len(cs), w, v)
    BY OfType, Zenon
  <1> HIDE DEF u, w
  <1>4. /\ all \in Seq(Configured) /\ DOMAIN all = 1 .. Len(all)
        /\ Len(all) = Len(u) + Len(w) /\ Len(u) \in Nat /\ Len(w) \in Nat
        /\ \A l \in 1 .. Len(u) : all[l] = u[l] /\ l \in 1 .. Len(all)
        /\ \A l \in 1 .. Len(w) : all[Len(u) + l] = w[l] /\ Len(u) + l \in 1 .. Len(all)
    BY <1>1
  <1>5. \A l \in 1 .. Len(all) : l \in 1 .. Len(u) \/ \E n \in 1 .. Len(w) : l = Len(u) + n
    <2>1. ASSUME NEW l \in 1 .. Len(all), l \notin 1 .. Len(u)
          PROVE  l - Len(u) \in 1 .. Len(w) /\ l = Len(u) + (l - Len(u))
      BY <1>4, <2>1
    <2> QED
      BY <2>1, Zenon
  <1>6. \A l \in 1 .. Len(u) : \A n \in 1 .. Len(w) : l < Len(u) + n
    BY <1>4
  <1>7. \A n, l \in 1 .. Len(w) : n < l => Len(u) + n < Len(u) + l
    BY <1>4
  <1> HIDE DEF all
  <1>8. PICK sources \in [DOMAIN all -> Sources] : o = [i \in DOMAIN all |-> stream_offer(all[i], sources[i])]
    BY Zenon DEF build, all, u, w, Sources
  <1>9. /\ DOMAIN o = 1 .. Len(all)
        /\ \A l \in 1 .. Len(all) : o[l].stream_type = all[l].type /\ o[l].target_delay = all[l].target_delay
    BY <1>4, <1>8, Zenon DEF stream_offer
  <1>10. Len(o) = Len(all)
    <2> DEFINE n == Len(all)
               S == {o[l] : l \in 1 .. n}
    <2>1. o \in [1 .. n -> S] /\ n \in Nat
      <3>1. o \in [1 .. n -> S]
        BY <1>4, <1>8, Zenon
      <3> QED
        BY <1>4, <3>1
    <2> HIDE DEF n, S
    <2>2. Len(o) = n
      BY <2>1
    <2> QED
      BY <2>2, Zenon DEF n
  <1>11. /\ DOMAIN cs = 1 .. Len(cs) /\ Len(cs) \in Nat
         /\ \A i \in 1 .. Len(cs) : i \in A \/ i \in V
         /\ \A i \in V : i \notin A /\ cs[i].type = "Video" /\ i \in 1 .. Len(cs)
         /\ \A i \in A : i \notin V /\ cs[i].type = "Audio" /\ i \in 1 .. Len(cs)
    <2>1. DOMAIN cs = 1 .. Len(cs) /\ Len(cs) \in Nat /\ \A i \in 1 .. Len(cs) : cs[i] \in Configured
      OBVIOUS
    <2>2. \A i \in 1 .. Len(cs) : cs[i].type \in {"Audio", "Video"}
      BY <2>1, Zenon DEF Configured, StreamTypes
    <2>3. "Audio" # "Video"
      OBVIOUS
    <2> QED
      BY <2>1, <2>2, <2>3, Zenon
  <1>12. /\ \A i \in A : a[i] \in 1 .. Len(u) /\ u[a[i]] = cs[i]
         /\ \A i, j \in A : i < j => a[i] < a[j]
         /\ \A l \in 1 .. Len(u) : \E i \in A : a[i] = l
    BY <1>2, Zenon DEF Placed
  <1>13. /\ \A i \in V : v[i] \in 1 .. Len(w) /\ w[v[i]] = cs[i]
         /\ \A i, j \in V : i < j => v[i] < v[j]
         /\ \A l \in 1 .. Len(w) : \E i \in V : v[i] = l
    BY <1>3, Zenon DEF Placed
  <1> HIDE DEF A, V
  <1> DEFINE at == [i \in 1 .. Len(cs) |-> IF i \in A THEN a[i] ELSE Len(u) + v[i]]
  <1>14. /\ \A i \in A : at[i] = a[i] /\ at[i] \in 1 .. Len(u) /\ at[i] \in 1 .. Len(all) /\ all[at[i]] = cs[i]
         /\ \A i \in V : at[i] = Len(u) + v[i] /\ at[i] \in 1 .. Len(all) /\ all[at[i]] = cs[i]
    BY <1>4, <1>11, <1>12, <1>13, Zenon
  <1>15. at \in [1 .. Len(cs) -> 1 .. Len(all)]
    BY <1>11, <1>14, Zenon
  <1> HIDE DEF at
  <1>16. ASSUME NEW i \in 1 .. Len(cs), NEW j \in 1 .. Len(cs), cs[i].type = cs[j].type, i < j
         PROVE  at[i] < at[j]
    <2>1. CASE i \in A /\ j \in A
      BY <1>12, <1>14, <1>16, <2>1, Zenon
    <2>2. CASE i \in V /\ j \in V
      BY <1>7, <1>13, <1>14, <1>16, <2>2, Zenon
    <2>3. "Audio" # "Video"
      OBVIOUS
    <2> QED
      BY <1>11, <1>16, <2>1, <2>2, <2>3, Zenon
  <1>17. ASSUME NEW i \in 1 .. Len(cs), NEW j \in 1 .. Len(cs), cs[i].type = "Audio", cs[j].type # "Audio"
         PROVE  at[i] < at[j]
    <2>1. i \in A /\ j \in V
      <3>1. "Audio" # "Video"
        OBVIOUS
      <3> QED
        BY <1>11, <1>17, <3>1, Zenon
    <2> QED
      BY <1>6, <1>13, <1>14, <2>1, Zenon
  <1>18. at \in Bijection(1 .. Len(cs), 1 .. Len(all))
    <2>1. \A i, j \in 1 .. Len(cs) : i < j \/ j < i \/ i = j
      BY <1>11
    <2>2. \A l \in 1 .. Len(all) : l \in Nat /\ ~(l < l)
      BY <1>4
    <2>3. ASSUME NEW i \in 1 .. Len(cs), NEW j \in 1 .. Len(cs), at[i] = at[j]
          PROVE  i = j
      <3>1. at[i] \in 1 .. Len(all) /\ at[j] \in 1 .. Len(all)
        BY <1>15, Zenon
      <3>2. CASE cs[i].type = cs[j].type
        BY <1>16, <2>1, <2>2, <2>3, <3>1, <3>2, Zenon
      <3>3. CASE cs[i].type # cs[j].type
        <4>1. cs[i].type = "Audio" \/ cs[j].type = "Audio"
          BY <1>11, <3>3, Zenon
        <4> QED
          BY <1>17, <2>2, <2>3, <3>1, <3>3, <4>1, Zenon
      <3> QED
        BY <3>2, <3>3, Zenon
    <2>4. \A l \in 1 .. Len(all) : \E i \in 1 .. Len(cs) : at[i] = l
      <3>1. \A l \in 1 .. Len(u) : \E i \in 1 .. Len(cs) : at[i] = l
        BY <1>11, <1>12, <1>14, Zenon
      <3>2. ASSUME NEW n \in 1 .. Len(w) PROVE \E i \in 1 .. Len(cs) : at[i] = Len(u) + n
        <4>1. PICK i \in V : v[i] = n
          BY <1>13, Zenon
        <4>2. i \in 1 .. Len(cs) /\ at[i] = Len(u) + n
          BY <1>11, <1>14, <4>1, Zenon
        <4> QED
          BY <4>2, Zenon
      <3>3. ASSUME NEW l \in 1 .. Len(all) PROVE \E i \in 1 .. Len(cs) : at[i] = l
        <4>1. CASE l \in 1 .. Len(u)
          BY <3>1, <4>1, Zenon
        <4>2. ASSUME NEW n \in 1 .. Len(w), l = Len(u) + n PROVE \E i \in 1 .. Len(cs) : at[i] = l
          BY <3>2, <4>2, Zenon
        <4> QED
          BY <1>5, <4>1, <4>2, Zenon
      <3> QED
        BY <3>3, Zenon
    <2>5. at \in Injection(1 .. Len(cs), 1 .. Len(all))
      BY <1>15, <2>3, Zenon DEF Injection, IsInjective
    <2>6. at \in Surjection(1 .. Len(cs), 1 .. Len(all))
      BY <1>15, <2>4, Zenon DEF Surjection
    <2> QED
      BY <2>5, <2>6, Zenon DEF Bijection
  <1>19. Len(all) = Len(cs)
    <2>1. \A n \in Nat : IsFiniteSet(1 .. n) /\ Cardinality(1 .. n) = n
      <3>1. \A n \in Nat : 1 \in Int /\ n \in Int /\ n = IF 1 > n THEN 0 ELSE n - 1 + 1
        OBVIOUS
      <3> QED
        BY <3>1, FS_Interval, Zenon
    <2>2. ExistsBijection(1 .. Len(cs), 1 .. Len(all))
      BY <1>18, Zenon DEF ExistsBijection
    <2>3. Len(all) \in Nat
      BY <1>4
    <2>4. Cardinality(1 .. Len(all)) = Cardinality(1 .. Len(cs))
      BY <1>11, <2>1, <2>2, FS_Bijection, Zenon
    <2> QED
      BY <1>11, <2>1, <2>3, <2>4, Zenon
  <1>20. \A i \in 1 .. Len(cs) : o[at[i]].stream_type = cs[i].type /\ o[at[i]].target_delay = cs[i].target_delay
    <2>1. \A i \in 1 .. Len(cs) : at[i] \in 1 .. Len(all) /\ all[at[i]] = cs[i]
      BY <1>11, <1>14, Zenon
    <2> QED
      BY <1>9, <2>1, Zenon
  <1>21. Len(o) = Len(cs) /\ DOMAIN o = 1 .. Len(o)
    BY <1>9, <1>10, <1>19, Zenon
  <1>22. DOMAIN cs = 1 .. Len(cs) /\ at \in Bijection(DOMAIN cs, DOMAIN o)
    BY <1>9, <1>11, <1>18, Zenon
  <1>23. \A i, j \in DOMAIN cs : cs[i].type = cs[j].type /\ i < j => at[i] < at[j]
    BY <1>11, <1>16, Zenon
  <1>24. \A i, j \in DOMAIN cs : cs[i].type = "Audio" /\ cs[j].type # "Audio" => at[i] < at[j]
    BY <1>11, <1>17, Zenon
  <1>25. \A i \in DOMAIN cs : o[at[i]].stream_type = cs[i].type /\ o[at[i]].target_delay = cs[i].target_delay
    BY <1>11, <1>20, Zenon
  <1> QED
    BY <1>21, <1>22, <1>23, <1>24, <1>25, Zenon
-----------------------------------------------------------------------------
(* The answer.                                                                *)

\* The type of the j-th stream of an answer.
type_of(a, j) == offer[a.send_indexes[j]].stream_type

\* The first m streams are streams of the offer, of different types, with sources
\* of their own.
Fits(a, m) ==
  /\ \A j \in 1 .. m : /\ a.send_indexes[j] \in DOMAIN offer
                       /\ a.sync_sources[j] # offer[a.send_indexes[j]].sync_source
  /\ \A i, j \in 1 .. m : type_of(a, i) = type_of(a, j) => i = j

IsFunction(f) == f = [t \in DOMAIN f |-> f[t]]

\* What the loop over send_indexes has done after m turns.
After(a, m, done) ==
  /\ \E ok \in BOOLEAN : \E st : done = [ok |-> ok, streams |-> st]
  /\ done.ok <=> Fits(a, m)
  /\ done.ok => /\ DOMAIN done.streams = {type_of(a, j) : j \in 1 .. m}
                /\ IsFunction(done.streams)
                /\ \A j \in 1 .. m : done.streams[type_of(a, j)] = stream_state(a, j)

\* One more turn of the loop over send_indexes.
LEMMA NextStream ==
  ASSUME NEW a, NEW m \in Nat, m # 0, NEW done, After(a, m - 1, done)
  PROVE  After(a, m, next_stream(a, m, done))
  <1> DEFINE index == a.send_indexes[m]
             type == offer[index].stream_type
             bad == \/ ~done.ok \/ index \notin DOMAIN offer
                    \/ a.sync_sources[m] = offer[index].sync_source
                    \/ type \in DOMAIN done.streams
             next == next_stream(a, m, done)
  <1>0. PICK ok \in BOOLEAN : \E st : done = [ok |-> ok, streams |-> st]
    BY Zenon DEF After
  <1>1. PICK st : done = [ok |-> ok, streams |-> st]
    BY <1>0, Zenon
  <1>2. /\ done.ok = ok /\ done.streams = st /\ type = type_of(a, m)
        /\ m - 1 \in Nat /\ m \in 1 .. m
        /\ \A j \in 1 .. m - 1 : j \in 1 .. m /\ j # m
        /\ \A j \in 1 .. m : j \in 1 .. m - 1 \/ j = m
    BY <1>1 DEF type_of
  <1>3. CASE bad
    <2>1. next = [done EXCEPT !.ok = FALSE]
      BY <1>3, Zenon DEF next_stream
    <2>2. next = [ok |-> FALSE, streams |-> st] /\ next.ok = FALSE
      BY <1>1, <2>1, Zenon
    <2>3. ~Fits(a, m)
      <3> SUFFICES ASSUME Fits(a, m) PROVE FALSE
        OBVIOUS
      <3>1. Fits(a, m - 1)
        BY <1>2, Zenon DEF Fits
      <3>2. done.ok /\ DOMAIN done.streams = {type_of(a, j) : j \in 1 .. m - 1}
        BY <3>1, Zenon DEF After
      <3>3. index \in DOMAIN offer /\ a.sync_sources[m] # offer[index].sync_source
        BY <1>2, Zenon DEF Fits
      <3>4. PICK j \in 1 .. m - 1 : type_of(a, j) = type_of(a, m)
        BY <1>2, <1>3, <3>2, <3>3, Zenon
      <3> QED
        BY <1>2, <3>4, Zenon DEF Fits
    <2> QED
      BY <2>2, <2>3, Zenon DEF After
  <1>4. CASE ~bad
    <2> DEFINE grown == [t \in DOMAIN done.streams \cup {type} |->
                           IF t \in DOMAIN done.streams THEN done.streams[t] ELSE stream_state(a, m)]
    <2>1. next = [ok |-> TRUE, streams |-> grown]
      BY <1>4, Zenon DEF next_stream
    <2> HIDE DEF grown
    <2>2. next.ok = TRUE /\ next.streams = grown
      BY <2>1
    <2>3. /\ Fits(a, m - 1) /\ DOMAIN done.streams = {type_of(a, j) : j \in 1 .. m - 1}
          /\ \A j \in 1 .. m - 1 : done.streams[type_of(a, j)] = stream_state(a, j)
      BY <1>2, <1>4, Zenon DEF After
    <2>4. \A j \in 1 .. m - 1 : type_of(a, j) \in DOMAIN done.streams /\ type_of(a, j) # type
      BY <1>4, <2>3, Zenon
    <2>5. Fits(a, m)
      BY <1>2, <1>4, <2>3, <2>4, Zenon DEF Fits
    <2>6. DOMAIN grown = DOMAIN done.streams \cup {type}
      BY Zenon DEF grown
    <2>7. DOMAIN grown = {type_of(a, j) : j \in 1 .. m}
      BY <1>2, <2>3, <2>6, Zenon
    <2>8. grown[type] = stream_state(a, m) /\ \A t \in DOMAIN done.streams : grown[t] = done.streams[t]
      BY <1>4, Zenon DEF grown
    <2>9. \A j \in 1 .. m : grown[type_of(a, j)] = stream_state(a, j)
      BY <1>2, <2>3, <2>4, <2>8, Zenon
    <2>10. IsFunction(grown)
      BY Zenon DEF grown, IsFunction
    <2> QED
      BY <2>1, <2>2, <2>5, <2>7, <2>9, <2>10, Zenon DEF After
  <1> QED
    BY <1>3, <1>4, Zenon

\* The recursive function of negotiated, up to n.
Turns(a, n, k) ==
  k = [i \in 0 .. n |-> IF i = 0 THEN [ok |-> TRUE, streams |-> << >>] ELSE next_stream(a, i, k[i - 1])]

\* The recursive function of negotiated exists.
LEMMA TurnsExist ==
  ASSUME NEW a, NEW n \in Nat
  PROVE  \E k : Turns(a, n, k)
  <1> DEFINE Good(m) == \E k : Turns(a, m, k)
             T == {m \in Nat : ~Good(m)}
  <1>1. SUFFICES ASSUME T # {} PROVE FALSE
    OBVIOUS
  <1>2. PICK m \in T : \A x \in T : ~(x < m)
    BY <1>1, LeastNat, Zenon
  <1>3. Good(0)
    <2> DEFINE k == [i \in 0 .. 0 |-> [ok |-> TRUE, streams |-> << >>]]
    <2>1. Turns(a, 0, k)
      BY DEF Turns
    <2> QED
      BY <2>1, Zenon
  <1> HIDE DEF Good
  <1>4. m \in Nat /\ m # 0 /\ m - 1 \in Nat /\ m - 1 < m
    <2>1. m \in Nat /\ m # 0
      BY <1>2, <1>3, Zenon
    <2> QED
      BY <2>1
  <1>5. PICK k : Turns(a, m - 1, k)
    BY <1>2, <1>4, Zenon DEF Good
  <1> DEFINE v == next_stream(a, m, k[m - 1])
             h == [i \in 0 .. m |-> IF i = m THEN v ELSE k[i]]
  <1>6. \A i \in 0 .. m : i # m => i \in 0 .. m - 1
    BY <1>4
  <1> HIDE DEF v
  <1>7. ASSUME NEW i \in 0 .. m
        PROVE  h[i] = IF i = 0 THEN [ok |-> TRUE, streams |-> << >>] ELSE next_stream(a, i, h[i - 1])
    <2>1. i # 0 => i - 1 \in 0 .. m /\ i - 1 # m /\ h[i - 1] = k[i - 1]
      BY <1>4
    <2>2. CASE i = m
      BY <1>4, <2>1, <2>2, Zenon DEF v
    <2>3. CASE i # m
      <3>1. k[i] = IF i = 0 THEN [ok |-> TRUE, streams |-> << >>] ELSE next_stream(a, i, k[i - 1])
        BY <1>5, <1>6, <2>3, Zenon DEF Turns
      <3> QED
        BY <2>1, <2>3, <3>1, Zenon
    <2> QED
      BY <2>2, <2>3, Zenon
  <1>8. Turns(a, m, h)
    BY <1>7, Zenon DEF Turns
  <1>9. Good(m)
    BY <1>8, Zenon DEF Good
  <1> QED
    BY <1>2, <1>9, Zenon

\* What negotiated returns.
LEMMA Negotiated ==
  ASSUME NEW a, a.send_indexes \in Seq(Nat)
  PROVE  After(a, Len(a.send_indexes), negotiated(a))
  <1> DEFINE n == Len(a.send_indexes)
  <1>1. n \in Nat
    OBVIOUS
  <1>2. \E k : Turns(a, n, k)
    BY <1>1, TurnsExist, Zenon
  <1>3. PICK k : Turns(a, n, k) /\ negotiated(a) = k[n]
    BY <1>2, Zenon DEF Turns, negotiated
  <1> DEFINE T == {m \in Nat : m <= n /\ ~After(a, m, k[m])}
  <1> HIDE DEF n
  <1>4. T = {}
    <2> SUFFICES ASSUME T # {} PROVE FALSE
      OBVIOUS
    <2>1. PICK m \in T : \A x \in T : ~(x < m)
      BY LeastNat, Zenon
    <2>2. m \in Nat /\ m <= n /\ ~After(a, m, k[m])
      BY <2>1, Zenon
    <2>3. m \in 0 .. n
      BY <1>1, <2>2
    <2>4. k[m] = IF m = 0 THEN [ok |-> TRUE, streams |-> << >>] ELSE next_stream(a, m, k[m - 1])
      BY <1>3, <2>3, Zenon DEF Turns
    <2>5. CASE m = 0
      <3>1. k[m] = [ok |-> TRUE, streams |-> << >>] /\ 1 .. m = {}
        BY <2>4, <2>5
      <3>2. k[m].ok = TRUE /\ k[m].streams = << >> /\ DOMAIN << >> = {}
        BY <3>1
      <3>3. Fits(a, m) /\ {type_of(a, j) : j \in 1 .. m} = {}
        BY <3>1, Zenon DEF Fits
      <3>4. IsFunction(<< >>)
        BY DEF IsFunction
      <3>5. After(a, m, k[m])
        BY <3>1, <3>2, <3>3, <3>4, Zenon DEF After
      <3> QED
        BY <2>2, <3>5, Zenon
    <2>6. CASE m # 0
      <3>1. m - 1 \in Nat /\ m - 1 < m /\ m - 1 <= n
        BY <1>1, <2>2, <2>6
      <3>2. After(a, m - 1, k[m - 1])
        BY <2>1, <3>1, Zenon
      <3>3. After(a, m, k[m])
        BY <2>2, <2>4, <2>6, <3>2, NextStream, Zenon
      <3> QED
        BY <2>2, <3>3, Zenon
    <2> QED
      BY <2>5, <2>6, Zenon
  <1>5. n <= n
    BY <1>1
  <1> QED
    BY <1>1, <1>3, <1>4, <1>5, Zenon DEF n
-----------------------------------------------------------------------------
(* The invariant.                                                             *)

StreamStates == [sender : Sources, receiver : Nat, target : Nat, pending : Nat, adaptive : BOOLEAN]

CallStates ==
  [kind : {"None", "Send", "Delay", "Statistics", "Shutdown"}, arg : Nat, stream : StreamTypes,
   phase : {"Idle", "Sending", "Queued", "Answered", "Done"},
   result : {"None", "Ok", "Err", "Refused", "Unsupported", "InvalidDelay", "SessionClosed"}, id : Nat]

SessionTypes ==
  /\ calls \in [Calls -> CallStates] /\ commands \in Seq(Calls) /\ IsInjective(commands)
  /\ accepted \in [StreamTypes -> Seq(Calls)]
  /\ attached \in [StreamTypes -> Seq(Nat)] /\ applied \in Seq(Nat)
  /\ earlier \in [Calls -> SUBSET Calls]
  /\ task \in {"None", "Running", "Ok", "Err"}
  /\ DOMAIN streams \subseteq StreamTypes /\ streams \in [DOMAIN streams -> StreamStates]
  /\ handles \subseteq DOMAIN streams

\* The session that is open is the one the answer calls for.
Accepts(a) ==
  /\ validate(a) /\ Range(a.send_indexes) \subseteq DOMAIN offer
  /\ \A k \in DOMAIN a.send_indexes : a.sync_sources[k] # offer[a.send_indexes[k]].sync_source
  /\ \A j, k \in DOMAIN a.send_indexes : type_of(a, j) = type_of(a, k) => j = k

Matches(a) ==
  /\ task # "None" <=> Accepts(a)
  /\ task # "None" =>
       /\ DOMAIN streams = {type_of(a, k) : k \in DOMAIN a.send_indexes}
       /\ \A k \in DOMAIN a.send_indexes :
            /\ streams[type_of(a, k)].sender = offer[a.send_indexes[k]].sync_source
            /\ applied = << >> => streams[type_of(a, k)].target = offer[a.send_indexes[k]].target_delay
            /\ streams[type_of(a, k)].receiver = a.sync_sources[k]
            /\ streams[type_of(a, k)].adaptive <=> \E extensions \in a.rtp_extensions : extensions[k]

NegotiationInv ==
  /\ \A i \in DOMAIN offer : offer[i] \in Offered /\ valid_target_delay(offer[i].target_delay)
  /\ configured = << >> => offer = << >>
  /\ offer = << >> => answer = << >>
  /\ answer = << >> => task = "None"
  /\ \A a \in Range(answer) : a \in Answers /\ Matches(a)
  /\ task = "None" => streams = << >> /\ applied = << >> /\ \A t \in StreamTypes : attached[t] = << >>

\* The delays a stream has been told, the one that waits included.
Told(t) ==
  attached[t] \o (IF streams[t].pending \div MILLISECOND = 0 THEN << >> ELSE <<streams[t].pending \div MILLISECOND>>)

DelayInv(t) ==
  /\ streams[t].pending = 0 \/ valid_playout_delay(streams[t].pending)
  /\ Len(Told(t)) <= Len(applied)
  /\ applied # << >> => streams[t].target = applied[Len(applied)]
  /\ applied # << >> => Told(t) # << >> /\ Told(t)[Len(Told(t))] * MILLISECOND = applied[Len(applied)]

CallInv(c) ==
  /\ c \in Range(commands) => calls[c].phase \notin {"Idle", "Sending"}
  /\ \A t \in StreamTypes : c \in Range(accepted[t]) =>
       c \notin Range(commands) /\ calls[c].stream = t /\ calls[c].phase \notin {"Idle", "Sending"}
  /\ calls[c].kind = "Send" => calls[c].stream \in DOMAIN streams
  /\ calls[c].kind = "Delay" /\ (calls[c].phase = "Sending" \/ c \in Range(commands)) => valid_playout_delay(calls[c].arg)
  /\ calls[c].kind = "Delay" /\ calls[c].result = "Ok" => calls[c].arg \in Range(applied)
  /\ calls[c].id # 0 => /\ calls[c].id \in DOMAIN accepted[calls[c].stream]
                        /\ accepted[calls[c].stream][calls[c].id] = c
  /\ calls[c].phase = "Idle" => earlier[c] = {}
  /\ c \notin earlier[c] /\ \A d \in earlier[c] : calls[d].phase = "Done"

ShutdownInv(c) ==
  calls[c].kind = "Shutdown" /\ calls[c].phase = "Done" /\ calls[c].result # "None" => task = calls[c].result

\* A call that was over before another was made is not behind it.
OrderInv ==
  /\ \A t \in StreamTypes :
       /\ IsInjective(accepted[t])
       /\ \A i, j \in DOMAIN accepted[t] : accepted[t][i] \in earlier[accepted[t][j]] => i < j
  /\ \A i \in DOMAIN commands, d \in Calls : commands[i] \in earlier[d] =>
       /\ \A t \in StreamTypes : d \notin Range(accepted[t])
       /\ \A j \in DOMAIN commands : commands[j] = d => i < j

SessionInv ==
  /\ SessionTypes /\ NegotiationInv /\ OrderInv
  /\ \A t \in DOMAIN streams : DelayInv(t)
  /\ \A c \in Calls : CallInv(c) /\ ShutdownInv(c)

\* After the negotiation only the delays of streams change, and their targets only
\* when a delay is set.
LEMMA NegotiationKept ==
  ASSUME NegotiationInv, UNCHANGED <<configured, offer, answer>>, task' = "None" <=> task = "None",
         DOMAIN streams' = DOMAIN streams,
         \A t \in DOMAIN streams : /\ streams'[t].sender = streams[t].sender
                                   /\ streams'[t].receiver = streams[t].receiver
                                   /\ streams'[t].adaptive = streams[t].adaptive,
         applied' = << >> => applied = << >> /\ \A t \in DOMAIN streams : streams'[t].target = streams[t].target,
         task = "None" => UNCHANGED <<streams, applied, attached>>
  PROVE  NegotiationInv'
  <1>1. ASSUME NEW a, Matches(a) PROVE Matches(a)'
    <2>1. Accepts(a)' = Accepts(a) /\ \A k : type_of(a, k)' = type_of(a, k)
      BY Zenon DEF Accepts, type_of, validate
    <2>2. task # "None" => \A k \in DOMAIN a.send_indexes : type_of(a, k) \in DOMAIN streams
      BY <1>1, Zenon DEF Matches
    <2>3. CASE task = "None"
      BY <1>1, <2>1, <2>3, Zenon DEF Matches
    <2>4. CASE task # "None"
      <3> DEFINE took == a.send_indexes
      <3>1. /\ Accepts(a) /\ DOMAIN streams = {type_of(a, k) : k \in DOMAIN took}
            /\ \A k \in DOMAIN took :
                 /\ streams[type_of(a, k)].sender = offer[took[k]].sync_source
                 /\ applied = << >> => streams[type_of(a, k)].target = offer[took[k]].target_delay
                 /\ streams[type_of(a, k)].receiver = a.sync_sources[k]
                 /\ streams[type_of(a, k)].adaptive <=> \E extensions \in a.rtp_extensions : extensions[k]
        BY <1>1, <2>4, Zenon DEF Matches
      <3>2. ASSUME NEW k \in DOMAIN took
            PROVE  /\ streams'[type_of(a, k)].sender = offer[took[k]].sync_source
                   /\ applied' = << >> => streams'[type_of(a, k)].target = offer[took[k]].target_delay
                   /\ streams'[type_of(a, k)].receiver = a.sync_sources[k]
                   /\ streams'[type_of(a, k)].adaptive <=> \E extensions \in a.rtp_extensions : extensions[k]
        BY <2>2, <2>4, <3>1
      <3> QED
        BY <2>1, <2>4, <3>1, <3>2 DEF Matches
    <2> QED
      BY <2>3, <2>4, Zenon
  <1>2. \A a \in Range(answer)' : a \in Answers /\ Matches(a)'
    <2>1. Range(answer)' = Range(answer)
      BY Zenon DEF Range
    <2> QED
      BY <1>1, <2>1, Zenon DEF NegotiationInv
  <1>3. \A i \in DOMAIN offer' : offer'[i] \in Offered /\ valid_target_delay(offer[i].target_delay)'
    BY Zenon DEF NegotiationInv, valid_target_delay
  <1>4. task' = "None" => streams' = << >> /\ applied' = << >> /\ \A t \in StreamTypes : attached'[t] = << >>
    BY Zenon DEF NegotiationInv
  <1>5. /\ configured' = << >> => offer' = << >>
        /\ offer' = << >> => answer' = << >>
        /\ answer' = << >> => task' = "None"
    BY Zenon DEF NegotiationInv
  <1> QED
    BY <1>2, <1>3, <1>4, <1>5, Zenon DEF NegotiationInv

\* A step that leaves the streams and their delays alone.
LEMMA DelaysKept ==
  ASSUME \A t \in DOMAIN streams : DelayInv(t), UNCHANGED <<streams, attached, applied>>
  PROVE  \A t \in DOMAIN streams' : DelayInv(t)'
  BY Zenon DEF DelayInv, Told

\* A step that appends no command and accepts no frame.
LEMMA OrderKept ==
  ASSUME SessionTypes, OrderInv, UNCHANGED <<accepted, earlier>>,
         commands' = commands \/ commands' = << >> \/ (commands # << >> /\ commands' = Tail(commands))
  PROVE  OrderInv'
  <1>1. commands \in Seq(Calls) /\ IsInjective(commands)
    BY Zenon DEF SessionTypes
  <1>2. CASE commands' = commands
    BY <1>2 DEF OrderInv, IsInjective, Range
  <1>3. CASE commands' = << >>
    BY <1>3 DEF OrderInv, IsInjective, Range
  <1>4. CASE commands # << >> /\ commands' = Tail(commands)
    <2>1. \A i \in DOMAIN commands' : i + 1 \in DOMAIN commands /\ commands'[i] = commands[i + 1] /\ i \in Nat
      BY <1>1, <1>4, TailFacts, Zenon
    <2>2. ASSUME NEW i \in DOMAIN commands', NEW d \in Calls, commands'[i] \in earlier[d]
          PROVE  /\ \A t \in StreamTypes : d \notin Range(accepted[t])
                 /\ \A j \in DOMAIN commands' : commands'[j] = d => i < j
      <3>1. /\ \A t \in StreamTypes : d \notin Range(accepted[t])
            /\ \A j \in DOMAIN commands : commands[j] = d => i + 1 < j
        BY <2>1, <2>2, Zenon DEF OrderInv
      <3>2. \A j \in DOMAIN commands' : commands'[j] = d => i + 1 < j + 1
        BY <2>1, <3>1, Zenon
      <3>3. \A j \in DOMAIN commands' : commands'[j] = d => i < j
        BY <2>1, <3>2
      <3> QED
        BY <3>1, <3>3, Zenon
    <2> QED
      BY <2>2 DEF OrderInv, IsInjective, Range
  <1> QED
    BY <1>2, <1>3, <1>4, Zenon

\* A call goes on: it stays the call it is and does not go back.
Follows(c) ==
  /\ calls'[c].kind = calls[c].kind /\ calls'[c].arg = calls[c].arg /\ calls'[c].stream = calls[c].stream
  /\ calls'[c].phase \in {"Idle", "Sending"} => calls'[c].phase = calls[c].phase
  /\ calls[c].phase = "Done" => calls'[c].phase = "Done"
  /\ calls'[c].id = 0 \/ calls'[c].id = calls[c].id
  /\ calls'[c].kind = "Delay" /\ calls'[c].result = "Ok" => calls[c].result = "Ok" \/ calls[c].arg \in Range(applied')

\* A step that neither makes a call nor queues one nor accepts a frame.
LEMMA CallsKept ==
  ASSUME \A c \in Calls : CallInv(c), UNCHANGED <<accepted, earlier>>, DOMAIN streams' = DOMAIN streams,
         Range(commands') \subseteq Range(commands), Range(applied) \subseteq Range(applied'),
         SessionTypes,
         \A c \in Calls : Follows(c)
  PROVE  \A c \in Calls : CallInv(c)'
  <1> SUFFICES ASSUME NEW c \in Calls PROVE CallInv(c)'
    OBVIOUS
  <1>0. CallInv(c)
    OBVIOUS
  <1>f. \A d \in Calls : Follows(d)
    OBVIOUS
  <1>r. /\ Range(commands)' = Range(commands') /\ Range(applied)' = Range(applied')
        /\ \A t : Range(accepted[t])' = Range(accepted[t])
    BY Zenon DEF Range
  <1>1. c \in Range(commands)' => calls'[c].phase \notin {"Idle", "Sending"}
    BY <1>0, <1>f, <1>r, Zenon DEF CallInv, Follows
  <1>2. \A t \in StreamTypes : c \in Range(accepted[t])' =>
          c \notin Range(commands)' /\ calls'[c].stream = t /\ calls'[c].phase \notin {"Idle", "Sending"}
    BY <1>0, <1>f, <1>r, Zenon DEF CallInv, Follows
  <1>3. calls'[c].kind = "Send" => calls'[c].stream \in DOMAIN streams'
    BY <1>0, <1>f, Zenon DEF CallInv, Follows
  <1>4. calls'[c].kind = "Delay" /\ (calls'[c].phase = "Sending" \/ c \in Range(commands)') => valid_playout_delay(calls[c].arg)'
    BY <1>0, <1>f, <1>r, Zenon DEF CallInv, Follows, valid_playout_delay
  <1>5. calls'[c].kind = "Delay" /\ calls'[c].result = "Ok" => calls'[c].arg \in Range(applied)'
    BY <1>0, <1>f, <1>r, Zenon DEF CallInv, Follows
  <1>6. calls'[c].id # 0 => /\ calls'[c].id \in DOMAIN accepted'[calls'[c].stream]
                            /\ accepted'[calls'[c].stream][calls'[c].id] = c
    BY <1>0, <1>f, Zenon DEF CallInv, Follows
  <1>7. calls'[c].phase = "Idle" => earlier'[c] = {}
    BY <1>0, <1>f, Zenon DEF CallInv, Follows
  <1>8. c \notin earlier'[c] /\ \A d \in earlier'[c] : calls'[d].phase = "Done"
    BY <1>0, <1>f DEF CallInv, Follows, SessionTypes
  <1> QED
    BY <1>1, <1>2, <1>3, <1>4, <1>5, <1>6, <1>7, <1>8, Zenon DEF CallInv

\* One call has new values, and the rest of the state is what it was.
LEMMA CallSet ==
  ASSUME SessionTypes, NEW c \in Calls, NEW call \in CallStates, calls' = [calls EXCEPT ![c] = call]
  PROVE  /\ calls' \in [Calls -> CallStates] /\ calls'[c] = call
         /\ \A d \in Calls : d # c => calls'[d] = calls[d]
  BY Zenon DEF SessionTypes

\* The invariant holds before build is called.
LEMMA InitHolds ==
  ASSUME Init
  PROVE  SessionInv
  <1>e. << >> \in Seq(Calls) /\ << >> \in Seq(Nat) /\ DOMAIN << >> = {}
    OBVIOUS
  <1>i. Idle \in CallStates
    BY Zenon DEF Idle, CallStates, StreamTypes
  <1>r. Range(<< >>) = {} /\ \A t \in StreamTypes : Range(accepted[t]) = {}
    BY <1>e, Zenon DEF Range, Init
  <1>1. SessionTypes
    BY <1>e, <1>i DEF Init, SessionTypes, IsInjective
  <1>2. NegotiationInv
    BY <1>r DEF Init, NegotiationInv
  <1>3. OrderInv
    BY <1>r DEF Init, OrderInv, IsInjective
  <1>4. \A c \in Calls : CallInv(c) /\ ShutdownInv(c)
    BY <1>r, Zenon DEF Init, CallInv, ShutdownInv, Idle
  <1>5. \A t \in DOMAIN streams : DelayInv(t)
    BY DEF Init
  <1> QED
    BY <1>1, <1>2, <1>3, <1>4, <1>5, Zenon DEF SessionInv
-----------------------------------------------------------------------------
(* The application's steps.                                                   *)

\* build makes an offer of what it has validated.
LEMMA BuildStep ==
  ASSUME SessionInv, NEW configurations \in Configurations, Build(configurations)
  PROVE  SessionInv'
  <1>u. UNCHANGED <<answer, session, handles, task, commands, calls, streams, accepted, attached, applied, earlier>>
    BY Zenon DEF Build, loop
  <1>0. SessionTypes /\ NegotiationInv /\ OrderInv
    BY Zenon DEF SessionInv
  <1>1. SessionTypes'
    BY <1>u, <1>0, Zenon DEF SessionTypes
  <1>2. OrderInv'
    BY <1>u, <1>0, OrderKept, Zenon
  <1>3. \A t \in DOMAIN streams' : DelayInv(t)'
    BY <1>u, DelaysKept, Zenon DEF SessionInv
  <1>4. \A c \in Calls : CallInv(c)' /\ ShutdownInv(c)'
    <2>1. \A c \in Calls : Follows(c)
      BY <1>u, Zenon DEF Follows, SessionInv, CallInv
    <2>2. \A c \in Calls : CallInv(c)'
      BY <1>u, <1>0, <2>1, CallsKept, Zenon DEF SessionInv
    <2> QED
      BY <1>u, <2>2, Zenon DEF SessionInv, ShutdownInv
  <1>5. configured = << >> /\ configured' = <<configurations>> /\ offer' \in build(configurations) \cup {<< >>}
    BY Zenon DEF Build
  <1>6. \A i \in DOMAIN offer' : offer'[i] \in Offered /\ valid_target_delay(offer[i].target_delay)'
    <2>1. CASE offer' = << >>
      BY <2>1
    <2>2. CASE offer' \in build(configurations)
      <3>1. configurations \in Seq(Configured)
        BY SessionAssumption, Zenon DEF Configured
      <3> QED
        BY <2>2, <3>1, BuildFacts, Zenon DEF valid_target_delay
    <2> QED
      BY <2>1, <2>2, <1>5, Zenon
  <1>7. offer = << >> /\ answer = << >> /\ task = "None"
    BY <1>0, <1>5, Zenon DEF NegotiationInv
  <1>8. NegotiationInv'
    <2>1. Range(answer)' = {}
      BY <1>u, <1>7 DEF Range
    <2>2. configured' # << >>
      BY <1>5, Zenon
    <2> QED
      BY <1>u, <1>0, <1>6, <1>7, <2>1, <2>2, Zenon DEF NegotiationInv
  <1> QED
    BY <1>1, <1>2, <1>3, <1>4, <1>8, Zenon DEF SessionInv

\* The answers whose streams all fit are those a session is started for.
LEMMA StartFits ==
  ASSUME NegotiationInv, NEW a \in Answers, validate(a)
  PROVE  Fits(a, Len(a.send_indexes)) <=> Accepts(a)
  <1>1. a.send_indexes \in Seq(Nat) /\ DOMAIN a.send_indexes = 1 .. Len(a.send_indexes)
    BY SessionAssumption
  <1>2. Range(a.send_indexes) \subseteq DOMAIN offer <=> \A j \in 1 .. Len(a.send_indexes) : a.send_indexes[j] \in DOMAIN offer
    BY <1>1, Zenon DEF Range
  <1> QED
    BY <1>1, <1>2, Zenon DEF Fits, Accepts

\* start_address opens a session or leaves everything as it was.
LEMMA StartStep ==
  ASSUME SessionInv, NEW a \in Answers, Start(a)
  PROVE  SessionInv'
  <1> DEFINE n == Len(a.send_indexes)
             ok == validate(a) /\ negotiated(a).ok
  <1>u. UNCHANGED <<configured, offer, handles, commands, calls, accepted, attached, applied, earlier>>
    BY Zenon DEF Start
  <1>0. SessionTypes /\ NegotiationInv /\ OrderInv
    BY Zenon DEF SessionInv
  <1>a. a.send_indexes \in Seq(Nat) /\ a.sync_sources \in Seq(Nat) /\ n \in Nat /\ DOMAIN a.send_indexes = 1 .. n
    BY SessionAssumption
  <1>1. answer = << >> /\ answer' = <<a>> /\ offer # << >> /\ task = "None" /\ streams = << >>
    BY <1>0, Zenon DEF Start, NegotiationInv
  <1>2. applied = << >> /\ \A t \in StreamTypes : attached[t] = << >>
    BY <1>0, <1>1, Zenon DEF NegotiationInv
  <1>3. After(a, n, negotiated(a))
    BY <1>a, Negotiated, Zenon
  <1>4. ok <=> Accepts(a)
    <2>1. validate(a) => (negotiated(a).ok <=> Accepts(a))
      BY <1>0, <1>3, StartFits, Zenon DEF After
    <2> QED
      BY <2>1, Zenon DEF Accepts
  <1>5. ASSUME ok
        PROVE  /\ streams' = negotiated(a).streams /\ task' = "Running"
               /\ DOMAIN streams' = {type_of(a, j) : j \in 1 .. n}
               /\ \A j \in 1 .. n : streams'[type_of(a, j)] = stream_state(a, j)
               /\ IsFunction(streams')
    <2>1. n # 0
      BY <1>5, <1>a DEF validate
    <2>2. /\ DOMAIN negotiated(a).streams = {type_of(a, j) : j \in 1 .. n}
          /\ IsFunction(negotiated(a).streams)
          /\ \A j \in 1 .. n : negotiated(a).streams[type_of(a, j)] = stream_state(a, j)
      BY <1>3, <1>5, Zenon DEF After
    <2>3. type_of(a, 1) \in DOMAIN negotiated(a).streams
      BY <2>1, <2>2, <1>a
    <2>4. negotiated(a).streams # << >>
      BY <2>3
    <2>5. streams' = negotiated(a).streams /\ task' = "Running"
      BY <1>5, <2>4, Zenon DEF Start
    <2> QED
      BY <2>2, <2>5, Zenon
  <1>6. ASSUME ~ok PROVE UNCHANGED <<streams, task>>
    BY <1>6, Zenon DEF Start
  <1>7. ASSUME ok, NEW j \in 1 .. n
        PROVE  type_of(a, j) \in StreamTypes /\ stream_state(a, j) \in StreamStates
    <2>1. a.send_indexes[j] \in DOMAIN offer
      BY <1>4, <1>7, <1>a, Zenon DEF Accepts, Range
    <2>2. offer[a.send_indexes[j]] \in Offered
      BY <2>1, <1>0, Zenon DEF NegotiationInv
    <2>3. a.sync_sources[j] \in Nat
      BY <1>7, <1>a DEF validate
    <2> QED
      BY <2>2, <2>3, Zenon DEF type_of, stream_state, StreamStates, Offered
  <1>f. \A j : /\ stream_state(a, j).pending = 0
               /\ stream_state(a, j).sender = offer[a.send_indexes[j]].sync_source
               /\ stream_state(a, j).target = offer[a.send_indexes[j]].target_delay
               /\ stream_state(a, j).receiver = a.sync_sources[j]
               /\ stream_state(a, j).adaptive <=> \E extensions \in a.rtp_extensions : extensions[j]
    BY Zenon DEF stream_state
  <1> HIDE DEF ok, n
  <1>8. SessionTypes'
    <2>1. /\ task' \in {"None", "Running", "Ok", "Err"}
          /\ DOMAIN streams' \subseteq StreamTypes /\ streams' \in [DOMAIN streams' -> StreamStates]
          /\ handles' \subseteq DOMAIN streams'
      <3>1. CASE ok
        <4>1. DOMAIN streams' \subseteq StreamTypes /\ \A t \in DOMAIN streams' : streams'[t] \in StreamStates
          BY <3>1, <1>5, <1>7, Zenon
        <4>2. streams' = [t \in DOMAIN streams' |-> streams'[t]]
          BY <3>1, <1>5, Zenon DEF IsFunction
        <4>3. handles = {}
          BY <1>0, <1>1 DEF SessionTypes
        <4> QED
          BY <4>1, <4>2, <4>3, <3>1, <1>5, <1>u, Zenon
      <3>2. CASE ~ok
        BY <3>2, <1>6, <1>u, <1>0, Zenon DEF SessionTypes
      <3> QED
        BY <3>1, <3>2, Zenon
    <2> QED
      BY <2>1, <1>u, <1>0, Zenon DEF SessionTypes
  <1>9. OrderInv'
    BY <1>u, <1>0, OrderKept, Zenon
  <1>10. \A t \in DOMAIN streams' : DelayInv(t)'
    <2> SUFFICES ASSUME NEW t \in DOMAIN streams', ok PROVE DelayInv(t)'
      BY <1>1, <1>6
    <2>1. streams'[t].pending = 0 /\ t \in StreamTypes
      <3>1. PICK j \in 1 .. n : t = type_of(a, j)
        BY <1>5, Zenon
      <3> QED
        BY <3>1, <1>5, <1>7, <1>f
    <2>2. 0 \div MILLISECOND = 0
      BY OfferAssumption
    <2>3. Told(t)' = << >>
      BY <2>1, <2>2, <1>2, <1>u DEF Told
    <2> QED
      BY <2>1, <2>3, <1>2, <1>u DEF DelayInv
  <1>11. \A c \in Calls : CallInv(c)'
    <2> SUFFICES ASSUME NEW c \in Calls PROVE CallInv(c)'
      OBVIOUS
    <2>0. CallInv(c)
      BY Zenon DEF SessionInv
    <2>1. DOMAIN streams \subseteq DOMAIN streams'
      BY <1>1
    <2> QED
      BY <2>0, <2>1, <1>u, Zenon DEF CallInv, valid_playout_delay, Range
  <1>12. \A c \in Calls : ShutdownInv(c)'
    BY <1>u, <1>1, <1>5, <1>6, Zenon DEF SessionInv, ShutdownInv
  <1>13. NegotiationInv'
    <2>1. Range(answer)' = {a}
      BY <1>1 DEF Range
    <2>2. (\A j : type_of(a, j)' = type_of(a, j)) /\ Accepts(a)' = Accepts(a)
      BY <1>u, Zenon DEF type_of, Accepts, validate
    <2>3. task' # "None" <=> ok
      BY <1>1, <1>5, <1>6, Zenon
    <2>4. Matches(a)'
      <3> SUFFICES ASSUME ok
                   PROVE  /\ DOMAIN streams' = {type_of(a, k) : k \in DOMAIN a.send_indexes}
                          /\ \A k \in DOMAIN a.send_indexes :
                               /\ streams'[type_of(a, k)].sender = offer[a.send_indexes[k]].sync_source
                               /\ applied' = << >> => streams'[type_of(a, k)].target = offer[a.send_indexes[k]].target_delay
                               /\ streams'[type_of(a, k)].receiver = a.sync_sources[k]
                               /\ streams'[type_of(a, k)].adaptive <=> \E extensions \in a.rtp_extensions : extensions[k]
        <4>1. offer' = offer
          BY <1>u, Zenon
        <4>2. task' # "None" <=> Accepts(a)'
          BY <2>2, <2>3, <1>4, Zenon
        <4>3. ok => (/\ DOMAIN streams = {type_of(a, k) : k \in DOMAIN a.send_indexes}
                     /\ \A k \in DOMAIN a.send_indexes :
                          /\ streams[type_of(a, k)].sender = offer[a.send_indexes[k]].sync_source
                          /\ applied = << >> => streams[type_of(a, k)].target = offer[a.send_indexes[k]].target_delay
                          /\ streams[type_of(a, k)].receiver = a.sync_sources[k]
                          /\ streams[type_of(a, k)].adaptive <=> \E extensions \in a.rtp_extensions : extensions[k])'
          BY <4>1, ZenonT(40) DEF type_of
        <4> QED
          BY <4>2, <4>3, <2>3, Zenon DEF Matches
      <3> QED
        <4>1. DOMAIN a.send_indexes = 1 .. n
          BY <1>a, Zenon
        <4>2. DOMAIN streams' = {type_of(a, k) : k \in 1 .. n} /\ \A k \in 1 .. n : streams'[type_of(a, k)] = stream_state(a, k)
          BY <1>5, Zenon
        <4>3. DOMAIN streams' = {type_of(a, k) : k \in DOMAIN a.send_indexes}
          BY <4>1, <4>2, Zenon
        <4> QED
          BY <4>1, <4>2, <4>3, <1>f, Zenon
    <2>5. \A i \in DOMAIN offer' : offer'[i] \in Offered /\ valid_target_delay(offer[i].target_delay)'
      BY <1>0, <1>u, Zenon DEF NegotiationInv, valid_target_delay
    <2>6. answer' # << >> /\ offer' # << >> /\ configured' # << >>
      BY <1>0, <1>1, <1>u, Zenon DEF NegotiationInv
    <2>7. task' = "None" => streams' = << >> /\ applied' = << >> /\ \A t \in StreamTypes : attached'[t] = << >>
      BY <2>3, <1>1, <1>2, <1>6, <1>u, Zenon
    <2> QED
      BY <2>1, <2>4, <2>5, <2>6, <2>7, Zenon DEF NegotiationInv
  <1> QED
    BY <1>8, <1>9, <1>10, <1>11, <1>12, <1>13, Zenon DEF SessionInv
-----------------------------------------------------------------------------
(* Steps of calls and of the loop that leave the streams alone.               *)

\* A step that may take a command from the channel, move calls and end the loop,
\* and changes no stream.
LEMMA QuietStep ==
  ASSUME SessionInv,
         UNCHANGED <<configured, offer, answer, streams, accepted, attached, applied, earlier>>,
         handles' \subseteq DOMAIN streams,
         task' \in {"None", "Running", "Ok", "Err"}, task' = "None" <=> task = "None",
         commands' = commands \/ commands' = << >> \/ (commands # << >> /\ commands' = Tail(commands)),
         calls' \in [Calls -> CallStates],
         \A c \in Calls : Follows(c) /\ ShutdownInv(c)'
  PROVE  SessionInv'
  <1>0. SessionTypes /\ NegotiationInv /\ OrderInv
    BY Zenon DEF SessionInv
  <1>1. commands' \in Seq(Calls) /\ IsInjective(commands') /\ Range(commands') \subseteq Range(commands)
    <2>1. commands \in Seq(Calls) /\ IsInjective(commands)
      BY <1>0, Zenon DEF SessionTypes
    <2>2. CASE commands' = commands
      BY <2>1, <2>2, Zenon
    <2>3. CASE commands' = << >>
      BY <2>3 DEF IsInjective, Range
    <2>4. CASE commands # << >> /\ commands' = Tail(commands)
      BY <2>1, <2>4, TailFacts DEF IsInjective, Range
    <2> QED
      BY <2>2, <2>3, <2>4, Zenon
  <1>2. SessionTypes'
    BY <1>0, <1>1, Zenon DEF SessionTypes
  <1>3. NegotiationInv'
    BY <1>0, NegotiationKept, Zenon
  <1>4. OrderInv'
    BY <1>0, OrderKept, Zenon
  <1>5. \A t \in DOMAIN streams' : DelayInv(t)'
    BY DelaysKept, Zenon DEF SessionInv
  <1>6. \A c \in Calls : CallInv(c)'
    BY <1>0, <1>1, CallsKept, Zenon DEF SessionInv
  <1> QED
    BY <1>2, <1>3, <1>4, <1>5, <1>6, Zenon DEF SessionInv

\* One call is over, or has its answer.
LEMMA CallStep ==
  ASSUME SessionInv, NEW c \in Calls, NEW call \in CallStates, calls' = [calls EXCEPT ![c] = call],
         UNCHANGED <<configured, offer, answer, streams, accepted, attached, applied, earlier, handles, task>>,
         commands' = commands \/ (commands # << >> /\ commands' = Tail(commands)),
         call.kind = calls[c].kind, call.arg = calls[c].arg, call.stream = calls[c].stream,
         call.phase \notin {"Idle", "Sending"}, calls[c].phase = "Done" => call.phase = "Done",
         call.id = 0 \/ call.id = calls[c].id,
         call.kind = "Delay" /\ call.result = "Ok" => calls[c].result = "Ok" \/ calls[c].arg \in Range(applied),
         call.kind = "Shutdown" /\ call.phase = "Done" /\ call.result # "None" => task = call.result
  PROVE  SessionInv'
  <1>0. SessionTypes
    BY Zenon DEF SessionInv
  <1>1. /\ calls' \in [Calls -> CallStates] /\ calls'[c] = call
        /\ \A d \in Calls : d # c => calls'[d] = calls[d]
    BY <1>0, CallSet, Zenon
  <1>2. \A d \in Calls : Follows(d) /\ ShutdownInv(d)'
    <2> SUFFICES ASSUME NEW d \in Calls PROVE Follows(d) /\ ShutdownInv(d)'
      OBVIOUS
    <2>1. CASE d = c
      BY <2>1, <1>1, Zenon DEF Follows, ShutdownInv
    <2>2. CASE d # c
      BY <2>2, <1>1, Zenon DEF Follows, ShutdownInv, SessionInv
    <2> QED
      BY <2>1, <2>2, Zenon
  <1>3. handles' \subseteq DOMAIN streams /\ task' \in {"None", "Running", "Ok", "Err"}
    BY <1>0, Zenon DEF SessionTypes
  <1> QED
    BY <1>1, <1>2, <1>3, QuietStep, Zenon

\* The session or a handle is taken or dropped.
LEMMA HoldStep ==
  ASSUME SessionInv, DropSession \/ \E t \in StreamTypes : Handle(t) \/ DropHandle(t)
  PROVE  SessionInv'
  <1>1. UNCHANGED <<configured, offer, answer, streams, accepted, attached, applied, earlier, task, commands, calls>>
    BY Zenon DEF DropSession, Handle, DropHandle, negotiation, loop
  <1>2. SessionTypes
    BY Zenon DEF SessionInv
  <1>3. handles' \subseteq DOMAIN streams
    BY <1>2, Zenon DEF DropSession, Handle, DropHandle, SessionTypes
  <1>4. \A c \in Calls : Follows(c) /\ ShutdownInv(c)'
    BY <1>1, Zenon DEF Follows, ShutdownInv, SessionInv
  <1>5. calls' \in [Calls -> CallStates] /\ task' \in {"None", "Running", "Ok", "Err"}
    BY <1>1, <1>2, Zenon DEF SessionTypes
  <1> QED
    BY <1>1, <1>3, <1>4, <1>5, QuietStep, Zenon

\* A call returns to the application, or the application drops it.
LEMMA ReturnStep ==
  ASSUME SessionInv, NEW c \in Calls, Proceed(c) \/ Cancel(c) \/ (Send(c) /\ task # "Running")
  PROVE  SessionInv'
  <1>0. SessionTypes /\ calls[c] \in CallStates /\ task \in {"None", "Running", "Ok", "Err"}
    BY Zenon DEF SessionInv, SessionTypes
  <1>1. PICK result, id :
          /\ result \in {"None", "SessionClosed"} \/ result = calls[c].result
             \/ (result = task /\ calls[c].kind = "Shutdown" /\ task # "Running")
          /\ calls[c].kind = "Shutdown" => result = task \/ result = "None"
          /\ id = 0 \/ id = calls[c].id
          /\ UNCHANGED commands
          /\ Finish(c, [calls[c] EXCEPT !.result = result, !.id = id])
    <2>2. CASE Proceed(c)
      <3> DEFINE result == IF calls[c].kind = "Shutdown" THEN task ELSE calls[c].result
      <3>1. UNCHANGED commands /\ Finish(c, [calls[c] EXCEPT !.result = result])
        BY <2>2, Zenon DEF Proceed
      <3>2. [calls[c] EXCEPT !.result = result] = [calls[c] EXCEPT !.result = result, !.id = calls[c].id]
        BY <1>0, ZenonT(40) DEF CallStates
      <3>3. /\ result = calls[c].result \/ (result = task /\ calls[c].kind = "Shutdown" /\ task # "Running")
            /\ calls[c].kind = "Shutdown" => result = task
        BY <2>2, Zenon DEF Proceed
      <3> HIDE DEF result
      <3> QED
        BY <3>1, <3>2, <3>3, Zenon
    <2>3. CASE Cancel(c)
      BY <2>3, Zenon DEF Cancel
    <2>4. CASE Send(c) /\ task # "Running"
      <3> DEFINE result == IF calls[c].kind = "Shutdown" THEN task ELSE "SessionClosed"
      <3>1. UNCHANGED commands /\ Finish(c, [calls[c] EXCEPT !.result = result])
        BY <2>4, Zenon DEF Send
      <3>2. [calls[c] EXCEPT !.result = result] = [calls[c] EXCEPT !.result = result, !.id = calls[c].id]
        BY <1>0, Zenon DEF CallStates
      <3>3. /\ result = "SessionClosed" \/ (result = task /\ calls[c].kind = "Shutdown" /\ task # "Running")
            /\ calls[c].kind = "Shutdown" => result = task
        BY <2>4, Zenon DEF Send
      <3> HIDE DEF result
      <3> QED
        BY <3>1, <3>2, <3>3, Zenon
    <2> QED
      BY <2>2, <2>3, <2>4, Zenon
  <1> DEFINE call == [calls[c] EXCEPT !.result = result, !.id = id, !.phase = "Done"]
  <1>2. calls' = [calls EXCEPT ![c] = call]
    BY <1>1, Zenon DEF Finish
  <1>3. call \in CallStates
    <2>1. result \in {"None", "Ok", "Err", "Refused", "Unsupported", "InvalidDelay", "SessionClosed"} /\ id \in Nat
      BY <1>0, <1>1 DEF CallStates
    <2> QED
      BY <1>0, <2>1, Zenon DEF CallStates
  <1>4. /\ call.kind = calls[c].kind /\ call.arg = calls[c].arg /\ call.stream = calls[c].stream
        /\ call.phase = "Done" /\ call.result = result /\ call.id = id
    BY <1>0, Zenon DEF CallStates
  <1>5. UNCHANGED <<configured, offer, answer, streams, accepted, attached, applied, earlier, handles, task, commands>>
    BY <1>1, Zenon DEF Finish, negotiation, loop
  <1> HIDE DEF call
  <1> QED
    BY <1>0, <1>1, <1>2, <1>3, <1>4, <1>5, CallStep, ZenonT(40)

\* A new call is behind those that are over, and holds nothing yet.
LEMMA IssueStep ==
  ASSUME SessionInv, NEW c \in Calls, NEW call \in CallStates, Issue(c, call),
         call.phase \in {"Sending", "Done"}, call.id = 0, call.result # "Ok",
         call.kind = "Shutdown" => call.result = "None",
         call.kind = "Send" => call.stream \in DOMAIN streams,
         call.kind = "Delay" /\ call.phase = "Sending" => valid_playout_delay(call.arg)
  PROVE  SessionInv'
  <1>0. SessionTypes /\ NegotiationInv /\ OrderInv /\ calls[c] = Idle /\ CallInv(c)
    BY Zenon DEF SessionInv, Issue
  <1>u. UNCHANGED <<configured, offer, answer, streams, accepted, attached, applied, handles, task, commands>>
    BY Zenon DEF Issue, negotiation, loop
  <1>1. /\ calls' \in [Calls -> CallStates] /\ calls'[c] = call
        /\ \A d \in Calls : d # c => calls'[d] = calls[d]
    BY <1>0, CallSet, Zenon DEF Issue
  <1>2. /\ earlier' \in [Calls -> SUBSET Calls] /\ earlier'[c] = {d \in Calls : calls[d].phase = "Done"}
        /\ \A d \in Calls : d # c => earlier'[d] = earlier[d]
    BY <1>0, Zenon DEF Issue, SessionTypes
  <1>3. calls[c].phase = "Idle"
    BY <1>0 DEF Idle
  <1>4. c \notin Range(commands) /\ \A t \in StreamTypes : c \notin Range(accepted[t])
    BY <1>0, <1>3, Zenon DEF CallInv
  <1>5. SessionTypes'
    BY <1>0, <1>u, <1>1, <1>2, Zenon DEF SessionTypes
  <1>6. NegotiationInv'
    BY <1>0, <1>u, NegotiationKept, Zenon
  <1>7. \A t \in DOMAIN streams' : DelayInv(t)'
    BY <1>u, DelaysKept, Zenon DEF SessionInv
  <1>8. OrderInv'
    <2>1. commands \in Seq(Calls) /\ \A t \in StreamTypes : accepted[t] \in Seq(Calls)
      BY <1>0, Zenon DEF SessionTypes
    <2>2. \A i \in DOMAIN commands : commands[i] # c /\ commands[i] \in Range(commands)
      BY <1>4, Zenon DEF Range
    <2>3. \A t \in StreamTypes : \A i \in DOMAIN accepted[t] : accepted[t][i] # c /\ accepted[t][i] \in Calls
      BY <1>4, <2>1 DEF Range
    <2>4. ASSUME NEW t \in StreamTypes
          PROVE  /\ IsInjective(accepted[t])
                 /\ \A i, j \in DOMAIN accepted[t] : accepted[t][i] \in earlier'[accepted[t][j]] => i < j
      <3>1. \A j \in DOMAIN accepted[t] : earlier'[accepted[t][j]] = earlier[accepted[t][j]]
        BY <1>2, <2>3, Zenon
      <3> QED
        BY <3>1, <1>0, Zenon DEF OrderInv
    <2>5. ASSUME NEW i \in DOMAIN commands, NEW d \in Calls, commands[i] \in earlier'[d]
          PROVE  /\ \A t \in StreamTypes : d \notin Range(accepted[t])
                 /\ \A j \in DOMAIN commands : commands[j] = d => i < j
      <3>1. CASE d = c
        BY <3>1, <1>4, <2>2, Zenon
      <3>2. CASE d # c
        <4>1. commands[i] \in earlier[d]
          BY <3>2, <2>5, <1>2, Zenon
        <4> QED
          BY <4>1, <1>0, Zenon DEF OrderInv
      <3> QED
        BY <3>1, <3>2, Zenon
    <2> QED
      BY <2>4, <2>5, <1>u DEF OrderInv, Range, IsInjective
  <1>9. ASSUME NEW d \in Calls PROVE CallInv(d)' /\ ShutdownInv(d)'
    <2>r. /\ Range(commands)' = Range(commands) /\ Range(applied)' = Range(applied)
          /\ \A t : Range(accepted[t])' = Range(accepted[t])
      BY <1>u, Zenon DEF Range
    <2>1. CASE d = c
      <3>1. c \notin earlier'[c] /\ \A e \in earlier'[c] : calls'[e].phase = "Done"
        BY <1>1, <1>2, <1>3, Zenon
      <3>2. calls'[c].kind = "Delay" /\ calls'[c].phase = "Sending" => valid_playout_delay(calls[c].arg)'
        BY <1>1, Zenon DEF valid_playout_delay
      <3>3. CallInv(c)'
        BY <1>1, <1>4, <2>r, <3>1, <3>2, <1>u, Zenon DEF CallInv
      <3>4. ShutdownInv(c)'
        BY <1>1, Zenon DEF ShutdownInv
      <3> QED
        BY <2>1, <3>3, <3>4, Zenon
    <2>2. CASE d # c
      <3>0. CallInv(d) /\ ShutdownInv(d)
        BY Zenon DEF SessionInv
      <3>1. calls'[d] = calls[d] /\ earlier'[d] = earlier[d] /\ earlier[d] \subseteq Calls
        BY <2>2, <1>0, <1>1, <1>2, Zenon DEF SessionTypes
      <3>2. d \notin earlier'[d] /\ \A e \in earlier'[d] : calls'[e].phase = "Done"
        <4>1. \A e \in earlier[d] : e \in Calls /\ calls[e].phase = "Done"
          BY <3>0, <3>1, Zenon DEF CallInv
        <4>2. \A e \in earlier[d] : e # c
          BY <4>1, <1>3, Zenon
        <4> QED
          BY <4>1, <4>2, <3>0, <3>1, <1>1, Zenon DEF CallInv
      <3>3. CallInv(d)'
        BY <3>0, <3>1, <3>2, <2>r, <1>u, Zenon DEF CallInv, valid_playout_delay
      <3>4. ShutdownInv(d)'
        BY <3>0, <3>1, <1>u, Zenon DEF ShutdownInv
      <3> QED
        BY <3>3, <3>4, Zenon
    <2> QED
      BY <2>1, <2>2, Zenon
  <1> QED
    BY <1>5, <1>6, <1>7, <1>8, <1>9, Zenon DEF SessionInv

\* A call of a handle or of the session is made.
LEMMA CallMade ==
  ASSUME SessionInv, NEW c \in Calls,
         \/ \E t \in StreamTypes : send(c, t)
         \/ \E delay \in Delays : set_target_playout_delay(c, delay)
         \/ statistics(c) \/ shutdown(c)
  PROVE  SessionInv'
  <1>0. handles \subseteq DOMAIN streams
    BY Zenon DEF SessionInv, SessionTypes
  <1>1. ASSUME NEW t \in StreamTypes, send(c, t) PROVE SessionInv'
    <2> DEFINE call == [Idle EXCEPT !.kind = "Send", !.stream = t, !.phase = "Sending"]
    <2>1. /\ call \in CallStates /\ call.phase = "Sending" /\ call.id = 0 /\ call.result = "None"
          /\ call.kind = "Send" /\ call.stream = t
      BY Zenon DEF CallStates, Idle
    <2>2. Issue(c, call) /\ t \in DOMAIN streams
      BY <1>0, <1>1, Zenon DEF send
    <2> HIDE DEF call
    <2> QED
      BY <2>1, <2>2, IssueStep, Zenon
  <1>2. ASSUME NEW delay \in Delays, set_target_playout_delay(c, delay) PROVE SessionInv'
    <2> DEFINE phase == IF valid_playout_delay(delay) /\ supports_adaptive_playout_delay THEN "Sending" ELSE "Done"
               result == CASE ~valid_playout_delay(delay) -> "InvalidDelay"
                           [] ~supports_adaptive_playout_delay -> "Unsupported"
                           [] OTHER -> "None"
               call == [Idle EXCEPT !.kind = "Delay", !.arg = delay, !.phase = phase, !.result = result]
    <2>1. /\ call \in CallStates /\ call.phase \in {"Sending", "Done"} /\ call.id = 0 /\ call.result # "Ok"
          /\ call.kind = "Delay" /\ (call.phase = "Sending" => valid_playout_delay(call.arg))
      <3>1. phase \in {"Sending", "Done"} /\ (phase = "Sending" => valid_playout_delay(delay))
        OBVIOUS
      <3>2. result \in {"InvalidDelay", "Unsupported", "None"}
        OBVIOUS
      <3>3. delay \in Nat
        BY SessionAssumption, Zenon
      <3> HIDE DEF phase, result
      <3>4. call.arg = delay /\ call.phase = phase /\ call.result = result /\ call.id = 0 /\ call.kind = "Delay"
        BY Zenon DEF Idle
      <3>5. call \in CallStates
        BY <3>1, <3>2, <3>3, Zenon DEF CallStates, StreamTypes, Idle
      <3> HIDE DEF call
      <3> QED
        BY <3>1, <3>2, <3>4, <3>5, Zenon
    <2>2. Issue(c, call)
      BY <1>2, Zenon DEF set_target_playout_delay
    <2> HIDE DEF call
    <2> QED
      BY <2>1, <2>2, IssueStep, Zenon
  <1>3. ASSUME NEW kind \in {"Statistics", "Shutdown"}, Issue(c, [Idle EXCEPT !.kind = kind, !.phase = "Sending"])
        PROVE  SessionInv'
    <2> DEFINE call == [Idle EXCEPT !.kind = kind, !.phase = "Sending"]
    <2>1. /\ call \in CallStates /\ call.phase = "Sending" /\ call.id = 0 /\ call.result = "None"
          /\ call.kind = kind
      BY Zenon DEF CallStates, Idle, StreamTypes
    <2> HIDE DEF call
    <2> QED
      BY <2>1, <1>3, IssueStep, Zenon DEF call
  <1>4. ASSUME statistics(c) PROVE SessionInv'
    BY <1>3, <1>4, Zenon DEF statistics
  <1>5. ASSUME shutdown(c) PROVE SessionInv'
    BY <1>3, <1>5, Zenon DEF shutdown
  <1> QED
    BY <1>1, <1>2, <1>4, <1>5, Zenon

\* A command has room in the channel.
LEMMA SendStep ==
  ASSUME SessionInv, NEW c \in Calls, Send(c), task = "Running"
  PROVE  SessionInv'
  <1>0. SessionTypes /\ NegotiationInv /\ OrderInv /\ CallInv(c) /\ calls[c].phase = "Sending"
    BY Zenon DEF SessionInv, Send
  <1>c. calls[c] \in CallStates /\ commands \in Seq(Calls) /\ IsInjective(commands)
    BY <1>0, Zenon DEF SessionTypes
  <1>u. /\ commands' = Append(commands, c)
        /\ UNCHANGED <<configured, offer, answer, streams, accepted, attached, applied, handles, task, earlier>>
    BY Zenon DEF Send, Queued, negotiation, loop
  <1> DEFINE call == [calls[c] EXCEPT !.phase = "Queued"]
  <1>1. /\ call \in CallStates /\ call.phase = "Queued" /\ call.kind = calls[c].kind /\ call.arg = calls[c].arg
        /\ call.stream = calls[c].stream /\ call.result = calls[c].result /\ call.id = calls[c].id
    BY <1>c, Zenon DEF CallStates
  <1>2. calls' = [calls EXCEPT ![c] = call]
    BY Zenon DEF Send, Queued
  <1> HIDE DEF call
  <1>3. /\ calls' \in [Calls -> CallStates] /\ calls'[c] = call
        /\ \A d \in Calls : d # c => calls'[d] = calls[d]
    BY <1>0, <1>1, <1>2, CallSet, Zenon
  <1>4. c \notin Range(commands) /\ (\A t \in StreamTypes : c \notin Range(accepted[t])) /\ \A d \in Calls : c \notin earlier[d]
    <2>1. \A d \in Calls : c \notin earlier[d]
      BY <1>0, Zenon DEF SessionInv, CallInv
    <2> QED
      BY <2>1, <1>0, Zenon DEF CallInv
  <1>5. /\ commands' \in Seq(Calls) /\ Len(commands') = Len(commands) + 1 /\ commands'[Len(commands) + 1] = c
        /\ \A i \in DOMAIN commands : commands'[i] = commands[i]
        /\ DOMAIN commands' = DOMAIN commands \cup {Len(commands) + 1} /\ Range(commands') = Range(commands) \cup {c}
        /\ DOMAIN commands = 1 .. Len(commands) /\ Len(commands) \in Nat
    <2>1. /\ commands' \in Seq(Calls) /\ Len(commands') = Len(commands) + 1 /\ commands'[Len(commands) + 1] = c
          /\ \A i \in DOMAIN commands : commands'[i] = commands[i]
          /\ DOMAIN commands' = DOMAIN commands \cup {Len(commands) + 1}
          /\ DOMAIN commands = 1 .. Len(commands) /\ Len(commands) \in Nat
      BY <1>c, <1>u
    <2> QED
      BY <2>1 DEF Range
  <1>6. IsInjective(commands')
    <2>1. \A i, j \in DOMAIN commands' : commands'[i] = commands'[j] => i = j
      BY <1>4, <1>5, <1>c, Zenon DEF IsInjective, Range
    <2> QED
      BY <2>1, Zenon DEF IsInjective
  <1>7. SessionTypes'
    BY <1>0, <1>u, <1>3, <1>5, <1>6, Zenon DEF SessionTypes
  <1>8. NegotiationInv'
    BY <1>0, <1>u, NegotiationKept, Zenon
  <1>9. \A t \in DOMAIN streams' : DelayInv(t)'
    BY <1>u, DelaysKept, Zenon DEF SessionInv
  <1>10. OrderInv'
    <2>1. ASSUME NEW i \in DOMAIN commands', NEW d \in Calls, commands'[i] \in earlier[d]
          PROVE  /\ \A t \in StreamTypes : d \notin Range(accepted[t])
                 /\ \A j \in DOMAIN commands' : commands'[j] = d => i < j
      <3>1. i \in DOMAIN commands /\ commands[i] \in earlier[d]
        BY <2>1, <1>4, <1>5, Zenon
      <3>2. /\ \A t \in StreamTypes : d \notin Range(accepted[t])
            /\ \A j \in DOMAIN commands : commands[j] = d => i < j
        BY <3>1, <1>0, Zenon DEF OrderInv
      <3>3. \A j \in DOMAIN commands' : commands'[j] = d => i < j
        BY <3>1, <3>2, <1>5
      <3> QED
        BY <3>2, <3>3, Zenon
    <2> QED
      BY <2>1, <1>0, <1>u DEF OrderInv, Range, IsInjective
  <1>11. ASSUME NEW d \in Calls PROVE CallInv(d)' /\ ShutdownInv(d)'
    <2>r. /\ Range(commands)' = Range(commands) \cup {c} /\ Range(applied)' = Range(applied)
          /\ \A t : Range(accepted[t])' = Range(accepted[t])
      BY <1>u, <1>5 DEF Range
    <2>0. CallInv(d) /\ ShutdownInv(d)
      BY Zenon DEF SessionInv
    <2>1. \A e \in earlier[d] : calls'[e].phase = "Done"
      BY <2>0, <1>0, <1>3, <1>4, Zenon DEF CallInv, SessionTypes
    <2>2. CASE d = c
      BY <2>0, <2>1, <2>2, <2>r, <1>0, <1>1, <1>3, <1>4, <1>u, ZenonT(40) DEF CallInv, ShutdownInv, valid_playout_delay
    <2>3. CASE d # c
      BY <2>0, <2>1, <2>3, <2>r, <1>3, <1>u, Zenon DEF CallInv, ShutdownInv, valid_playout_delay
    <2> QED
      BY <2>2, <2>3, Zenon
  <1> QED
    BY <1>7, <1>8, <1>9, <1>10, <1>11, Zenon DEF SessionInv
-----------------------------------------------------------------------------
(* The loop's steps.                                                          *)

\* The command at the head of the channel is a call.
LEMMA HeadFacts ==
  ASSUME SessionInv, NEW kind, Take(kind)
  PROVE  /\ Head(commands) \in Calls /\ Head(commands) \in Range(commands) /\ calls[Head(commands)].kind = kind
         /\ task = "Running" /\ commands # << >>
  <1>1. commands \in Seq(Calls) /\ commands # << >>
    BY Zenon DEF SessionInv, SessionTypes, Take
  <1>2. Head(commands) = commands[1] /\ 1 \in DOMAIN commands
    BY <1>1
  <1> QED
    BY <1>1, <1>2 DEF Take, Range

\* What an answer does to the call at the head of the channel.
LEMMA Answered ==
  ASSUME SessionInv, NEW kind, Take(kind), NEW result, NEW id \in Nat,
         result \in {"None", "Ok", "Err", "Refused", "Unsupported", "InvalidDelay", "SessionClosed"},
         NEW c, c = Head(commands)
  PROVE  /\ c \in Calls /\ c \in Range(commands) /\ calls[c].kind = kind /\ task = "Running" /\ commands # << >>
         /\ \E call \in CallStates :
              /\ replied(c, result, id) = [calls EXCEPT ![c] = call]
              /\ call.kind = kind /\ call.arg = calls[c].arg /\ call.stream = calls[c].stream
              /\ calls[c].phase # "Queued" => call = calls[c]
              /\ calls[c].phase = "Queued" => call.phase = "Answered" /\ call.result = result /\ call.id = id
  <1>1. commands \in Seq(Calls) /\ commands # << >> /\ calls \in [Calls -> CallStates]
    BY Zenon DEF SessionInv, SessionTypes, Take
  <1>2. c \in Calls /\ c \in Range(commands) /\ calls[c].kind = kind /\ task = "Running"
    BY HeadFacts, Zenon
  <1>3. calls[c] \in CallStates
    BY <1>1, <1>2, Zenon
  <1>4. CASE calls[c].phase = "Queued"
    <2> DEFINE call == [calls[c] EXCEPT !.phase = "Answered", !.result = result, !.id = id]
    <2>1. call \in CallStates
      BY <1>3, ZenonT(40) DEF CallStates
    <2>2. /\ call.kind = kind /\ call.arg = calls[c].arg /\ call.stream = calls[c].stream
          /\ call.phase = "Answered" /\ call.result = result /\ call.id = id
      BY <1>2, <1>3, Zenon DEF CallStates
    <2>3. replied(c, result, id) = [calls EXCEPT ![c] = call]
      BY <1>4, Zenon DEF replied
    <2> HIDE DEF call
    <2> QED
      BY <1>1, <1>2, <1>4, <2>1, <2>2, <2>3, Zenon
  <1>5. CASE calls[c].phase # "Queued"
    <2>1. replied(c, result, id) = [calls EXCEPT ![c] = calls[c]]
      BY <1>5, Zenon DEF replied
    <2> QED
      BY <1>1, <1>2, <1>3, <1>5, <2>1, Zenon
  <1> QED
    BY <1>4, <1>5, Zenon

\* The loop answers the command at the head and leaves the streams alone.
LEMMA ReplyStep ==
  ASSUME SessionInv, NEW kind \in {"Send", "Delay", "Statistics"}, Take(kind),
         NEW result \in {"Ok", "Refused", "Unsupported"}, kind = "Delay" => result # "Ok",
         calls' = replied(Head(commands), result, 0), commands' = Tail(commands),
         UNCHANGED <<task, streams, accepted, attached, applied>>
  PROVE  SessionInv'
  <1> DEFINE c == Head(commands)
  <1>1. 0 \in Nat /\ result \in {"None", "Ok", "Err", "Refused", "Unsupported", "InvalidDelay", "SessionClosed"}
    OBVIOUS
  <1>2. PICK call \in CallStates :
          /\ c \in Calls /\ c \in Range(commands) /\ calls[c].kind = kind /\ task = "Running" /\ commands # << >>
          /\ replied(c, result, 0) = [calls EXCEPT ![c] = call]
          /\ call.kind = kind /\ call.arg = calls[c].arg /\ call.stream = calls[c].stream
          /\ calls[c].phase # "Queued" => call = calls[c]
          /\ calls[c].phase = "Queued" => call.phase = "Answered" /\ call.result = result /\ call.id = 0
    BY <1>1, Answered
  <1>3. calls[c].phase \notin {"Idle", "Sending"}
    BY <1>2, Zenon DEF SessionInv, CallInv
  <1>4. UNCHANGED <<configured, offer, answer, earlier, handles>>
    BY Zenon DEF Take, negotiation
  <1> HIDE DEF c
  <1>5. call.phase \notin {"Idle", "Sending"} /\ (calls[c].phase = "Done" => call.phase = "Done")
    BY <1>2, <1>3, Zenon
  <1>6. call.id = 0 \/ call.id = calls[c].id
    BY <1>2, Zenon
  <1>7. call.kind = "Delay" /\ call.result = "Ok" => calls[c].result = "Ok"
    BY <1>2, Zenon
  <1>8. calls' = [calls EXCEPT ![c] = call]
    BY <1>2, Zenon DEF c
  <1> QED
    BY <1>2, <1>4, <1>5, <1>6, <1>7, <1>8, CallStep

\* The loop ends: every call in the channel is answered.
LEMMA EndStep ==
  ASSUME SessionInv, NEW cs \in [Calls -> CallStates], NEW result \in {"Ok", "Err"}, Ended(cs, result), task = "Running",
         UNCHANGED <<configured, offer, answer, streams, accepted, attached, applied, earlier, handles>>,
         \A c \in Calls :
           /\ cs[c].kind = calls[c].kind /\ cs[c].arg = calls[c].arg /\ cs[c].stream = calls[c].stream
           /\ cs[c].phase \in {"Idle", "Sending"} => cs[c].phase = calls[c].phase
           /\ calls[c].phase = "Done" => cs[c] = calls[c]
           /\ cs[c].phase = "Done" => calls[c].phase = "Done"
           /\ cs[c].id = 0 \/ cs[c].id = calls[c].id
           /\ cs[c].kind = "Delay" /\ cs[c].result = "Ok" => calls[c].result = "Ok"
  PROVE  SessionInv'
  <1>0. SessionTypes
    BY Zenon DEF SessionInv
  <1>1. task' = result /\ commands' = << >>
    BY ZenonT(40) DEF Ended
  <1> DEFINE answered(c) == [cs[c] EXCEPT !.phase = "Answered", !.result = "SessionClosed"]
  <1>2. \A c \in Calls : calls'[c] = IF cs[c].phase = "Queued" THEN answered(c) ELSE cs[c]
    BY Zenon DEF Ended
  <1>3. \A c \in Calls : /\ answered(c) \in CallStates /\ answered(c).phase = "Answered" /\ answered(c).result = "SessionClosed"
                         /\ answered(c).kind = cs[c].kind /\ answered(c).arg = cs[c].arg
                         /\ answered(c).stream = cs[c].stream /\ answered(c).id = cs[c].id
    <2>1. \A call \in CallStates : [call EXCEPT !.phase = "Answered", !.result = "SessionClosed"] \in CallStates
      BY ZenonT(40) DEF CallStates
    <2>2. \A call \in CallStates :
            LET new == [call EXCEPT !.phase = "Answered", !.result = "SessionClosed"]
            IN  /\ new.phase = "Answered" /\ new.result = "SessionClosed"
                /\ new.kind = call.kind /\ new.arg = call.arg /\ new.stream = call.stream /\ new.id = call.id
      BY DEF CallStates
    <2>3. \A c \in Calls : cs[c] \in CallStates
      OBVIOUS
    <2> QED
      BY <2>1, <2>2, <2>3, Zenon
  <1> HIDE DEF answered
  <1>4. calls' \in [Calls -> CallStates]
    <2>1. \A c \in Calls : calls'[c] \in CallStates
      BY <1>2, <1>3, Zenon
    <2>2. calls' = [c \in Calls |-> calls'[c]]
      BY ZenonT(40) DEF Ended
    <2> QED
      BY <2>1, <2>2, Zenon
  <1>5. \A c \in Calls : Follows(c) /\ ShutdownInv(c)'
    <2> SUFFICES ASSUME NEW c \in Calls PROVE Follows(c) /\ ShutdownInv(c)'
      BY Zenon
    <2>1. CASE cs[c].phase = "Queued"
      BY <2>1, <1>2, <1>3 DEF Follows, ShutdownInv
    <2>2. CASE cs[c].phase # "Queued"
      <3>1. calls'[c] = cs[c]
        BY <2>2, <1>2, Zenon
      <3>2. Follows(c)
        BY <3>1, SMTT(30) DEF Follows
      <3>3. ~(calls[c].kind = "Shutdown" /\ calls[c].phase = "Done" /\ calls[c].result # "None")
        <4>1. calls[c].result # "Running"
          BY <1>0 DEF SessionTypes, CallStates
        <4> QED
          BY <4>1, Zenon DEF SessionInv, ShutdownInv
      <3>4. ShutdownInv(c)'
        BY <3>1, <3>3, Zenon DEF ShutdownInv
      <3> QED
        BY <3>2, <3>4, Zenon
    <2> QED
      BY <2>1, <2>2, Zenon
  <1>6. handles' \subseteq DOMAIN streams
    BY <1>0, Zenon DEF SessionTypes
  <1> QED
    BY <1>1, <1>4, <1>5, <1>6, QuietStep, Zenon

\* The loop ends: by a shutdown, because everyone is gone, or by a failure.
LEMMA LoopEnds ==
  ASSUME SessionInv, Shutdown \/ Abandoned \/ LoopFails
  PROVE  SessionInv'
  <1>0. calls \in [Calls -> CallStates]
    BY Zenon DEF SessionInv, SessionTypes
  <1>1. UNCHANGED <<configured, offer, answer, streams, accepted, attached, applied, earlier, handles>> /\ task = "Running"
    BY Zenon DEF Shutdown, Abandoned, LoopFails, Take, negotiation, loop
  <1>2. CASE Abandoned \/ LoopFails
    <2>1. PICK result \in {"Ok", "Err"} : Ended(calls, result)
      BY <1>2, Zenon DEF Abandoned, LoopFails
    <2> QED
      BY <1>0, <1>1, <2>1, EndStep, Zenon
  <1>3. CASE Shutdown
    <2> DEFINE c == Head(commands)
               cs == replied(c, "Ok", 0)
    <2>1. Take("Shutdown") /\ Ended(cs, "Ok")
      BY <1>3, Zenon DEF Shutdown
    <2>2. PICK call \in CallStates :
            /\ c \in Calls /\ c \in Range(commands) /\ calls[c].kind = "Shutdown"
            /\ cs = [calls EXCEPT ![c] = call]
            /\ call.kind = "Shutdown" /\ call.arg = calls[c].arg /\ call.stream = calls[c].stream
            /\ calls[c].phase # "Queued" => call = calls[c]
            /\ calls[c].phase = "Queued" => call.phase = "Answered" /\ call.result = "Ok" /\ call.id = 0
      BY <2>1, Answered
    <2> HIDE DEF c, cs
    <2>3. cs \in [Calls -> CallStates] /\ cs[c] = call /\ \A d \in Calls : d # c => cs[d] = calls[d]
      BY <1>0, <2>2, Zenon
    <2>4. ASSUME NEW d \in Calls
          PROVE  /\ cs[d].kind = calls[d].kind /\ cs[d].arg = calls[d].arg /\ cs[d].stream = calls[d].stream
                 /\ cs[d].phase \in {"Idle", "Sending"} => cs[d].phase = calls[d].phase
                 /\ calls[d].phase = "Done" => cs[d] = calls[d]
                 /\ cs[d].phase = "Done" => calls[d].phase = "Done"
                 /\ cs[d].id = 0 \/ cs[d].id = calls[d].id
                 /\ cs[d].kind = "Delay" /\ cs[d].result = "Ok" => calls[d].result = "Ok"
      BY <2>2, <2>3, Zenon
    <2> QED
      BY <1>1, <2>1, <2>3, <2>4, EndStep, Zenon
  <1> QED
    BY <1>2, <1>3, Zenon

\* The delays a stream has been told, with one that waits and without.
LEMMA ToldIs ==
  ASSUME SessionTypes, NEW t \in DOMAIN streams
  PROVE  /\ attached[t] \in Seq(Nat) /\ streams[t].pending \in Nat /\ streams[t].pending \div MILLISECOND \in Nat
         /\ streams[t].pending \div MILLISECOND = 0 => Told(t) = attached[t]
         /\ streams[t].pending \div MILLISECOND # 0 => Told(t) = Append(attached[t], streams[t].pending \div MILLISECOND)
  <1>1. attached[t] \in Seq(Nat) /\ streams[t].pending \in Nat
    BY Zenon DEF SessionTypes, StreamStates
  <1>2. \A p \in Nat : p \div MILLISECOND \in Nat
    BY OfferAssumption
  <1>3. \A s \in Seq(Nat) : s \o << >> = s /\ \A m \in Nat : s \o <<m>> = Append(s, m)
    OBVIOUS
  <1> QED
    BY <1>1, <1>2, <1>3, Zenon DEF Told

\* A delay is set on every stream.
LEMMA SetDelayStep ==
  ASSUME SessionInv, SetDelay
  PROVE  SessionInv'
  <1> DEFINE supported == \A t \in DOMAIN streams : streams[t].adaptive
  <1>1. Take("Delay") /\ commands' = Tail(commands) /\ UNCHANGED <<task, accepted, attached>>
    BY Zenon DEF SetDelay
  <1>c. PICK c \in Calls : c = Head(commands)
    BY <1>1, HeadFacts, Zenon
  <1>2. CASE ~supported
    <2>1. calls' = replied(Head(commands), "Unsupported", 0) /\ UNCHANGED <<streams, applied>>
      BY <1>2, Zenon DEF SetDelay
    <2> QED
      BY <1>1, <2>1, ReplyStep, Zenon
  <1>3. CASE supported
    <2>0. SessionTypes /\ NegotiationInv /\ OrderInv
      BY Zenon DEF SessionInv
    <2>1. PICK call \in CallStates :
            /\ c \in Calls /\ c \in Range(commands) /\ calls[c].kind = "Delay" /\ task = "Running" /\ commands # << >>
            /\ replied(c, "Ok", 0) = [calls EXCEPT ![c] = call]
            /\ call.kind = "Delay" /\ call.arg = calls[c].arg /\ call.stream = calls[c].stream
            /\ calls[c].phase # "Queued" => call = calls[c]
            /\ calls[c].phase = "Queued" => call.phase = "Answered" /\ call.result = "Ok" /\ call.id = 0
      <3>1. 0 \in Nat /\ "Ok" \in {"None", "Ok", "Err", "Refused", "Unsupported", "InvalidDelay", "SessionClosed"}
        OBVIOUS
      <3> QED
        BY <1>1, <1>c, <3>1, Answered
    <2>2. /\ streams' = [t \in DOMAIN streams |-> [streams[t] EXCEPT !.target = calls[c].arg, !.pending = calls[c].arg]]
          /\ applied' = Append(applied, calls[c].arg) /\ calls' = [calls EXCEPT ![c] = call]
      BY <1>3, <1>c, <2>1, Zenon DEF SetDelay
    <2>u. UNCHANGED <<configured, offer, answer, handles, earlier>>
      BY <1>1, Zenon DEF Take, negotiation
    <2> HIDE DEF supported
    <2> DEFINE delay == calls[c].arg
    <2>3. calls[c].phase \notin {"Idle", "Sending"} /\ valid_playout_delay(delay) /\ delay \in Nat
      BY <2>0, <2>1, Zenon DEF SessionInv, SessionTypes, CallInv, CallStates
    <2> HIDE DEF delay
    <2>4. /\ calls' \in [Calls -> CallStates] /\ calls'[c] = call
          /\ \A d \in Calls : d # c => calls'[d] = calls[d]
      BY <2>0, <2>1, <2>2, CallSet, Zenon
    <2>5. /\ DOMAIN streams' = DOMAIN streams
          /\ \A t \in DOMAIN streams : /\ streams'[t] \in StreamStates /\ streams'[t].pending = delay
                                       /\ streams'[t].sender = streams[t].sender /\ streams'[t].target = delay
                                       /\ streams'[t].receiver = streams[t].receiver
                                       /\ streams'[t].adaptive = streams[t].adaptive
      <3>1. \A t \in DOMAIN streams : streams[t] \in StreamStates
        BY <2>0, Zenon DEF SessionTypes
      <3> DEFINE set(st) == [st EXCEPT !.target = delay, !.pending = delay]
      <3>2. \A st \in StreamStates : set(st) \in StreamStates
        BY <2>3, Zenon DEF StreamStates
      <3>3. \A st \in StreamStates : /\ set(st).pending = delay /\ set(st).sender = st.sender /\ set(st).target = delay
                                     /\ set(st).receiver = st.receiver /\ set(st).adaptive = st.adaptive
        BY Zenon DEF StreamStates
      <3>4. DOMAIN streams' = DOMAIN streams /\ \A t \in DOMAIN streams : streams'[t] = set(streams[t])
        BY <2>2, Zenon DEF delay
      <3> HIDE DEF set
      <3> QED
        BY <3>1, <3>2, <3>3, <3>4
    <2>6. /\ applied' \in Seq(Nat) /\ Len(applied') = Len(applied) + 1 /\ applied'[Len(applied')] = delay
          /\ Range(applied) \subseteq Range(applied') /\ delay \in Range(applied') /\ Len(applied) \in Nat /\ applied' # << >>
      <3>1. applied \in Seq(Nat) /\ applied' = Append(applied, delay)
        BY <2>0, <2>2, Zenon DEF SessionTypes, delay
      <3> QED
        BY <3>1, <2>3 DEF Range
    <2>7. /\ commands' \in Seq(Calls) /\ IsInjective(commands') /\ Range(commands') \subseteq Range(commands)
      <3>1. commands \in Seq(Calls) /\ commands # << >> /\ commands' = Tail(commands) /\ IsInjective(commands)
        BY <1>1, <2>0, <2>1, Zenon DEF SessionTypes
      <3> QED
        BY <3>1, TailFacts DEF IsInjective, Range
    <2>8. SessionTypes'
      <3>1. streams' \in [DOMAIN streams' -> StreamStates]
        <4>1. streams' = [t \in DOMAIN streams' |-> streams'[t]]
          BY <2>2, Zenon
        <4> QED
          BY <4>1, <2>5, Zenon
      <3> QED
        BY <3>1, <1>1, <2>u, <2>0, <2>4, <2>5, <2>6, <2>7, Zenon DEF SessionTypes
    <2>9. NegotiationInv'
      BY <1>1, <2>0, <2>1, <2>5, <2>6, <2>u, NegotiationKept, Zenon
    <2>10. OrderInv'
      BY <1>1, <2>0, <2>1, <2>u, OrderKept, Zenon
    <2>11. \A d \in Calls : Follows(d) /\ ShutdownInv(d)'
      <3> SUFFICES ASSUME NEW d \in Calls PROVE Follows(d) /\ ShutdownInv(d)'
        BY Zenon
      <3>1. CASE d = c
        BY <3>1, <2>1, <2>3, <2>4, <2>6, Zenon DEF Follows, ShutdownInv, delay
      <3>2. CASE d # c
        BY <3>2, <2>4, <1>1, Zenon DEF Follows, ShutdownInv, SessionInv
      <3> QED
        BY <3>1, <3>2, Zenon
    <2>12. \A d \in Calls : CallInv(d)'
      BY <1>1, <2>0, <2>5, <2>6, <2>7, <2>11, <2>u, CallsKept, ZenonT(40) DEF SessionInv
    <2>13. ASSUME NEW t \in DOMAIN streams' PROVE DelayInv(t)'
      <3> DEFINE ms == delay \div MILLISECOND
      <3>1. ms \in Nat /\ ms # 0 /\ ms * MILLISECOND = delay
        BY <2>3, SMTT(30) DEF valid_playout_delay
      <3>2. t \in DOMAIN streams /\ attached[t] \in Seq(Nat) /\ DelayInv(t) /\ streams'[t].pending = delay /\ streams'[t].target = delay
        BY <2>0, <2>5, Zenon DEF SessionTypes, SessionInv
      <3>3. Len(attached[t]) <= Len(applied)
        <4>1. Len(attached[t]) <= Len(Told(t)) /\ Len(Told(t)) \in Nat
          BY <2>0, <3>2, ToldIs
        <4> QED
          BY <3>2, <4>1, <2>6, SMTT(30) DEF DelayInv
      <3>4. Told(t)' = attached[t] \o <<ms>>
        BY <3>1, <3>2, <1>1, Zenon DEF Told
      <3>5. attached[t] \o <<ms>> # << >> /\ Len(attached[t] \o <<ms>>) = Len(attached[t]) + 1 /\ (attached[t] \o <<ms>>)[Len(attached[t]) + 1] = ms
        BY <3>1, <3>2
      <3>6. valid_playout_delay(streams[t].pending)'
        BY <2>3, <3>2, Zenon DEF valid_playout_delay
      <3> HIDE DEF ms
      <3>7. Told(t)' # << >> /\ Len(Told(t)') = Len(attached[t]) + 1 /\ Told(t)'[Len(Told(t)')] = ms
        BY <3>4, <3>5, Zenon
      <3>8. Len(Told(t)') <= Len(applied')
        BY <3>2, <3>3, <3>7, <2>6
      <3>9. Told(t)'[Len(Told(t)')] * MILLISECOND = applied'[Len(applied')]
        BY <3>1, <3>7, <2>6, Zenon
      <3> QED
        BY <3>2, <3>6, <3>7, <3>8, <3>9, <2>6, Zenon DEF DelayInv
    <2> QED
      BY <2>8, <2>9, <2>10, <2>11, <2>12, <2>13, Zenon DEF SessionInv
  <1> QED
    BY <1>2, <1>3, Zenon

\* A frame takes the number after the frames of its stream, and the delay that
\* waits for it.
LEMMA AcceptStep ==
  ASSUME SessionInv, AcceptFrame
  PROVE  SessionInv'
  <1>0. SessionTypes /\ NegotiationInv /\ OrderInv /\ Take("Send")
    BY Zenon DEF SessionInv, AcceptFrame
  <1>c. PICK c \in Calls : c = Head(commands)
    BY <1>0, HeadFacts, Zenon
  <1>1. c \in Range(commands) /\ calls[c].kind = "Send" /\ task = "Running" /\ commands # << >>
    BY <1>0, <1>c, HeadFacts, Zenon
  <1>t. PICK t \in StreamTypes : t = calls[c].stream
    BY <1>0, Zenon DEF SessionTypes, CallStates
  <1>2. CallInv(c) /\ calls[c] \in CallStates /\ t \in DOMAIN streams
    BY <1>0, <1>1, <1>t, Zenon DEF SessionInv, SessionTypes, CallInv
  <1> DEFINE pending == streams[t].pending
             id == Len(accepted[t]) + 1
  <1>3. /\ accepted' = [accepted EXCEPT ![t] = Append(@, c)]
        /\ attached' = IF pending = 0 THEN attached
                       ELSE [attached EXCEPT ![t] = Append(@, (pending \div MILLISECOND) % (U16_MAX + 1))]
        /\ streams' = [streams EXCEPT ![t].pending = 0]
        /\ calls' = replied(c, "Ok", Len(accepted'[t])) /\ commands' = Tail(commands)
        /\ UNCHANGED <<task, applied>>
    BY <1>c, <1>t, Zenon DEF AcceptFrame
  <1>u. UNCHANGED <<configured, offer, answer, handles, earlier>>
    BY <1>0, Zenon DEF Take, negotiation
  <1>4. accepted[t] \in Seq(Calls) /\ id \in Nat /\ id # 0
    BY <1>0, <1>2 DEF SessionTypes
  <1>5. /\ accepted' \in [StreamTypes -> Seq(Calls)] /\ \A s \in StreamTypes : s # t => accepted'[s] = accepted[s]
        /\ accepted'[t] = Append(accepted[t], c)
    BY <1>0, <1>1, <1>2, <1>3 DEF SessionTypes
  <1>6. /\ Len(accepted'[t]) = id /\ accepted'[t][id] = c /\ \A i \in DOMAIN accepted[t] : accepted'[t][i] = accepted[t][i]
        /\ DOMAIN accepted'[t] = DOMAIN accepted[t] \cup {id} /\ DOMAIN accepted[t] = 1 .. Len(accepted[t])
        /\ Range(accepted'[t]) = Range(accepted[t]) \cup {c}
    <2>1. /\ Len(accepted'[t]) = id /\ accepted'[t][id] = c /\ \A i \in DOMAIN accepted[t] : accepted'[t][i] = accepted[t][i]
          /\ DOMAIN accepted'[t] = DOMAIN accepted[t] \cup {id} /\ DOMAIN accepted[t] = 1 .. Len(accepted[t])
      BY <1>1, <1>4, <1>5
    <2> HIDE DEF id
    <2> QED
      BY <2>1, SMTT(30) DEF Range
  <1>7. PICK call \in CallStates :
          /\ calls' = [calls EXCEPT ![c] = call]
          /\ call.kind = "Send" /\ call.arg = calls[c].arg /\ call.stream = t
          /\ calls[c].phase # "Queued" => call = calls[c]
          /\ calls[c].phase = "Queued" => call.phase = "Answered" /\ call.result = "Ok" /\ call.id = id
    <2>1. id \in Nat /\ "Ok" \in {"None", "Ok", "Err", "Refused", "Unsupported", "InvalidDelay", "SessionClosed"}
      BY <1>4, Zenon
    <2>2. calls' = replied(c, "Ok", id) /\ c = Head(commands)
      BY <1>3, <1>6, <1>c, Zenon
    <2> HIDE DEF id
    <2>3. \E call \in CallStates :
              /\ replied(c, "Ok", id) = [calls EXCEPT ![c] = call]
              /\ call.kind = "Send" /\ call.arg = calls[c].arg /\ call.stream = calls[c].stream
              /\ calls[c].phase # "Queued" => call = calls[c]
              /\ calls[c].phase = "Queued" => call.phase = "Answered" /\ call.result = "Ok" /\ call.id = id
      BY <1>0, <2>1, <2>2, Answered
    <2> QED
      BY <2>2, <2>3, <1>t, Zenon
  <1>8. /\ calls' \in [Calls -> CallStates] /\ calls'[c] = call
        /\ \A d \in Calls : d # c => calls'[d] = calls[d]
    BY <1>0, <1>1, <1>7, CallSet, ZenonT(40)
  <1>9. /\ calls[c].phase \notin {"Idle", "Sending"} /\ calls[c].stream = t /\ calls[c].id = 0
        /\ \A s \in StreamTypes : c \notin Range(accepted[s])
    <2>1. calls[c].phase \notin {"Idle", "Sending"} /\ calls[c].stream = t /\ \A s \in StreamTypes : c \notin Range(accepted[s])
      BY <1>1, <1>2, <1>t, Zenon DEF CallInv
    <2>2. calls[c].id # 0 => c \in Range(accepted[t])
      BY <1>2, <2>1, Zenon DEF CallInv, Range
    <2> QED
      BY <2>1, <2>2, <1>2, Zenon
  <1>10. /\ commands' \in Seq(Calls) /\ IsInjective(commands') /\ Range(commands') \subseteq Range(commands)
         /\ \A i \in DOMAIN commands' : i + 1 \in DOMAIN commands /\ commands'[i] = commands[i + 1] /\ i \in Nat /\ i # 0
         /\ commands[1] = c /\ 1 \in DOMAIN commands /\ c \notin Range(commands')
    <2>1. commands \in Seq(Calls) /\ commands # << >> /\ commands' = Tail(commands) /\ IsInjective(commands)
      BY <1>0, <1>1, <1>3, Zenon DEF SessionTypes
    <2>2. commands[1] = c /\ 1 \in DOMAIN commands
      BY <2>1, <1>c
    <2>3. /\ commands' \in Seq(Calls)
          /\ \A i \in DOMAIN commands' : i + 1 \in DOMAIN commands /\ commands'[i] = commands[i + 1] /\ i \in Nat /\ i # 0
      BY <2>1, TailFacts
    <2>4. Range(commands') \subseteq Range(commands) /\ c \notin Range(commands')
      BY <2>1, <2>2, <2>3 DEF Range, IsInjective
    <2>5. IsInjective(commands')
      BY <2>1, <2>3 DEF IsInjective
    <2> QED
      BY <2>2, <2>3, <2>4, <2>5, Zenon
  <1>11. /\ DOMAIN streams' = DOMAIN streams /\ \A s \in DOMAIN streams : s # t => streams'[s] = streams[s]
         /\ streams'[t] \in StreamStates /\ streams'[t].pending = 0
         /\ streams'[t].sender = streams[t].sender /\ streams'[t].target = streams[t].target
         /\ streams'[t].receiver = streams[t].receiver /\ streams'[t].adaptive = streams[t].adaptive
    <2> DEFINE st == [streams[t] EXCEPT !.pending = 0]
    <2>1. streams[t] \in StreamStates
      BY <1>0, <1>2, Zenon DEF SessionTypes
    <2>2. st \in StreamStates
      BY <2>1, Zenon DEF StreamStates
    <2>3. /\ st.pending = 0 /\ st.sender = streams[t].sender /\ st.target = streams[t].target
          /\ st.receiver = streams[t].receiver /\ st.adaptive = streams[t].adaptive
      BY <2>1, Zenon DEF StreamStates
    <2>4. DOMAIN streams' = DOMAIN streams /\ streams'[t] = st /\ \A s \in DOMAIN streams : s # t => streams'[s] = streams[s]
      BY <1>2, <1>3, Zenon
    <2> HIDE DEF st
    <2> QED
      BY <2>2, <2>3, <2>4, Zenon
  <1>12. SessionTypes'
    <2>1. streams' \in [DOMAIN streams' -> StreamStates]
      <3>1. streams' = [s \in DOMAIN streams' |-> streams'[s]]
        BY <1>3, Zenon
      <3>2. \A s \in DOMAIN streams' : streams'[s] \in StreamStates
        BY <1>0, <1>11, Zenon DEF SessionTypes
      <3> QED
        BY <3>1, <3>2, Zenon
    <2>2. attached' \in [StreamTypes -> Seq(Nat)]
      <3>1. (pending \div MILLISECOND) % (U16_MAX + 1) \in Nat
        <4>1. pending \in Nat
          BY <1>0, <1>2, ToldIs, Zenon
        <4>2. \A p \in Nat : (p \div MILLISECOND) % (U16_MAX + 1) \in Nat
          BY OfferAssumption, SessionAssumption
        <4> QED
          BY <4>1, <4>2, Zenon
      <3> QED
        BY <1>0, <1>2, <1>3, <3>1 DEF SessionTypes
    <2> QED
      BY <2>1, <2>2, <1>0, <1>3, <1>5, <1>8, <1>10, <1>11, <1>u, Zenon DEF SessionTypes
  <1>13. NegotiationInv'
    BY <1>0, <1>1, <1>3, <1>11, <1>u, NegotiationKept, Zenon
  <1>14. OrderInv'
    <2>0. \A i \in DOMAIN accepted[t] : accepted[t][i] # c /\ accepted[t][i] \in Range(accepted[t]) /\ accepted[t][i] \in Calls
      BY <1>2, <1>4, <1>9 DEF Range
    <2>1. ASSUME NEW s \in StreamTypes
          PROVE  /\ IsInjective(accepted'[s])
                 /\ \A i, j \in DOMAIN accepted'[s] : accepted'[s][i] \in earlier[accepted'[s][j]] => i < j
      <3>1. CASE s # t
        BY <3>1, <1>0, <1>5, Zenon DEF OrderInv
      <3>2. CASE s = t
        <4>1. IsInjective(accepted[t]) /\ \A i, j \in DOMAIN accepted[t] : accepted[t][i] \in earlier[accepted[t][j]] => i < j
          BY <1>0, <1>2, ZenonT(40) DEF OrderInv
        <4>2. \A d \in Calls : c \in earlier[d] => d \notin Range(accepted[t])
          BY <1>0, <1>2, <1>10, Zenon DEF OrderInv
        <4>3. c \notin earlier[c]
          BY <1>2, Zenon DEF CallInv
        <4>4. \A i \in DOMAIN accepted[t] : i < id /\ i # id
          BY <1>4, <1>6, SMTT(30)
        <4> HIDE DEF id
        <4>5. \A i, j \in DOMAIN accepted'[t] : accepted'[t][i] = accepted'[t][j] => i = j
          BY <2>0, <4>1, <1>6, Zenon DEF IsInjective
        <4>6. \A i, j \in DOMAIN accepted'[t] : accepted'[t][i] \in earlier[accepted'[t][j]] => i < j
          <5> SUFFICES ASSUME NEW i \in DOMAIN accepted'[t], NEW j \in DOMAIN accepted'[t],
                              accepted'[t][i] \in earlier[accepted'[t][j]]
                       PROVE  i < j
            OBVIOUS
          <5>1. CASE i \in DOMAIN accepted[t] /\ j \in DOMAIN accepted[t]
            BY <5>1, <4>1, <1>6, Zenon
          <5>2. CASE i \in DOMAIN accepted[t] /\ j = id
            BY <5>2, <4>4, Zenon
          <5>3. i \in DOMAIN accepted[t]
            BY <2>0, <4>2, <4>3, <1>6, Zenon
          <5> QED
            BY <5>1, <5>2, <5>3, <1>6, Zenon
        <4> QED
          BY <3>2, <4>5, <4>6, Zenon DEF IsInjective
      <3> QED
        BY <3>1, <3>2, Zenon
    <2>2. ASSUME NEW i \in DOMAIN commands', NEW d \in Calls, commands'[i] \in earlier[d]
          PROVE  /\ \A s \in StreamTypes : d \notin Range(accepted'[s])
                 /\ \A j \in DOMAIN commands' : commands'[j] = d => i < j
      <3>1. i + 1 \in DOMAIN commands /\ commands[i + 1] \in earlier[d] /\ i \in Nat /\ i # 0
        BY <2>2, <1>10, Zenon
      <3>2. /\ \A s \in StreamTypes : d \notin Range(accepted[s])
            /\ \A j \in DOMAIN commands : commands[j] = d => i + 1 < j
        BY <3>1, <1>0, Zenon DEF OrderInv
      <3>3. d # c
        BY <3>1, <3>2, <1>10, SMTT(30)
      <3>4. \A s \in StreamTypes : d \notin Range(accepted'[s])
        BY <3>2, <3>3, <1>5, <1>6, Zenon
      <3>5. \A j \in DOMAIN commands' : commands'[j] = d => i + 1 < j + 1 /\ j \in Nat
        BY <3>2, <1>10, Zenon
      <3>6. \A j \in DOMAIN commands' : commands'[j] = d => i < j
        BY <3>1, <3>5
      <3> QED
        BY <3>4, <3>6, Zenon
    <2>3. \A s : Range(accepted[s])' = Range(accepted'[s]) /\ IsInjective(accepted[s])' = IsInjective(accepted'[s])
      BY Zenon DEF Range, IsInjective
    <2> QED
      BY <2>1, <2>2, <2>3, <1>u, ZenonT(40) DEF OrderInv
  <1>15. ASSUME NEW d \in Calls PROVE CallInv(d)'
    <2>r. /\ Range(commands)' = Range(commands') /\ Range(applied)' = Range(applied)
          /\ \A s : Range(accepted[s])' = Range(accepted'[s])
      BY <1>3, Zenon DEF Range
    <2>0. CallInv(d)
      BY Zenon DEF SessionInv
    <2>1. d \notin earlier'[d] /\ \A e \in earlier'[d] : calls'[e].phase = "Done"
      <3>1. d \notin earlier[d] /\ \A e \in earlier[d] : e \in Calls /\ calls[e].phase = "Done"
        BY <2>0, <1>0, Zenon DEF CallInv, SessionTypes
      <3>2. calls[c].phase = "Done" => calls'[c].phase = "Done"
        BY <1>7, <1>8, Zenon
      <3> QED
        BY <3>1, <3>2, <1>8, <1>u, Zenon
    <2>2. CASE d = c
      <3>1. c \notin Range(commands') /\ \A s \in StreamTypes : c \in Range(accepted'[s]) => s = t
        BY <1>5, <1>9, <1>10, Zenon
      <3>2. calls'[c].kind = "Send" /\ calls'[c].stream = t /\ calls'[c].phase \notin {"Idle", "Sending"}
        BY <1>7, <1>8, <1>9, Zenon
      <3>3. calls'[c].id # 0 => calls'[c].id = id
        BY <1>7, <1>8, <1>9, Zenon
      <3>4. t \in DOMAIN streams' /\ id \in DOMAIN accepted'[t] /\ accepted'[t][id] = c
        BY <1>2, <1>6, <1>11, Zenon
      <3> HIDE DEF id
      <3> QED
        BY <2>1, <2>2, <2>r, <3>1, <3>2, <3>3, <3>4, ZenonT(40) DEF CallInv
    <2>3. CASE d # c
      <3>1. calls'[d] = calls[d]
        BY <2>3, <1>8, Zenon
      <3>2. \A s \in StreamTypes : d \in Range(accepted'[s]) => d \in Range(accepted[s])
        BY <2>3, <1>5, <1>6, Zenon
      <3>3. calls[d].id # 0 => /\ calls[d].id \in DOMAIN accepted'[calls[d].stream]
                               /\ accepted'[calls[d].stream][calls[d].id] = d
        <4>1. calls[d].stream \in StreamTypes
          BY <1>0, Zenon DEF SessionTypes, CallStates
        <4> QED
          BY <4>1, <2>0, <1>5, <1>6, ZenonT(40) DEF CallInv
      <3>4. calls[d].phase = "Idle" => earlier'[d] = {}
        BY <2>0, <1>u, ZenonT(40) DEF CallInv
      <3>5. calls[d].kind = "Delay" /\ (calls[d].phase = "Sending" \/ d \in Range(commands')) => valid_playout_delay(calls[d].arg)'
        BY <2>0, <3>1, <1>10, Zenon DEF CallInv, valid_playout_delay
      <3> QED
        BY <2>0, <2>1, <2>r, <3>1, <3>2, <3>3, <3>4, <3>5, <1>10, <1>11, Zenon DEF CallInv
    <2> QED
      BY <2>2, <2>3, Zenon
  <1>16. ASSUME NEW d \in Calls PROVE ShutdownInv(d)'
    BY <1>7, <1>8, <1>3, Zenon DEF ShutdownInv, SessionInv
  <1>17. ASSUME NEW s \in DOMAIN streams' PROVE DelayInv(s)'
    <2>0. s \in DOMAIN streams /\ DelayInv(s) /\ s \in StreamTypes
      BY <1>0, <1>11, Zenon DEF SessionInv, SessionTypes
    <2>1. CASE s # t
      <3>1. streams'[s] = streams[s] /\ attached'[s] = attached[s] /\ applied' = applied
        BY <2>0, <2>1, <1>0, <1>3, <1>11, Zenon DEF SessionTypes
      <3> QED
        BY <2>0, <3>1, Zenon DEF DelayInv, Told, valid_playout_delay
    <2>2. CASE s = t
      <3> DEFINE ms == pending \div MILLISECOND
      <3>1. /\ attached[t] \in Seq(Nat) /\ pending \in Nat /\ ms \in Nat
            /\ ms = 0 => Told(t) = attached[t]
            /\ ms # 0 => Told(t) = Append(attached[t], ms)
        BY <1>0, <1>2, ToldIs, Zenon
      <3>2. 0 \div MILLISECOND = 0
        BY OfferAssumption
      <3>3. Told(t)' = attached'[t]
        <4>1. t \in DOMAIN streams' /\ (streams'[t].pending \div MILLISECOND) = 0
          BY <1>11, <3>2, <1>2, Zenon
        <4>2. attached'[t] \in Seq(Nat)
          BY <1>2, <1>12, Zenon DEF SessionTypes
        <4>3. \A q \in Seq(Nat) : q \o << >> = q
          OBVIOUS
        <4> QED
          BY <4>1, <4>2, <4>3, Zenon DEF Told
      <3>4. attached'[t] = Told(t)
        <4>1. CASE pending = 0
          BY <4>1, <3>1, <3>2, <1>3, Zenon
        <4>2. CASE pending # 0
          <5>1. ms \in 1 .. U16_MAX
            BY <4>2, <2>0, <2>2, Zenon DEF DelayInv, valid_playout_delay
          <5>2. ms % (U16_MAX + 1) = ms
            <6>1. \A m \in 1 .. U16_MAX : m % (U16_MAX + 1) = m
              BY SessionAssumption
            <6> QED
              BY <5>1, <6>1, Zenon
          <5>3. attached'[t] = Append(attached[t], ms % (U16_MAX + 1))
            BY <4>2, <1>0, <1>2, <1>3, Zenon DEF SessionTypes
          <5> QED
            BY <3>1, <5>1, <5>2, <5>3
        <4> QED
          BY <4>1, <4>2, Zenon
      <3>5. Told(t)' = Told(t) /\ streams'[t].pending = 0 /\ applied' = applied /\ streams'[t].target = streams[t].target
        BY <3>3, <3>4, <1>3, <1>11, Zenon
      <3> QED
        BY <2>0, <2>2, <3>5, Zenon DEF DelayInv
    <2> QED
      BY <2>1, <2>2, Zenon
  <1> QED
    BY <1>12, <1>13, <1>14, <1>15, <1>16, <1>17, Zenon DEF SessionInv

\* Every step of the application and of the loop keeps the invariant.
LEMMA StepHolds ==
  ASSUME SessionInv, [Next]_vars
  PROVE  SessionInv'
  <1>1. CASE UNCHANGED vars
    <2>1. UNCHANGED <<configured, offer, answer, streams, accepted, attached, applied, earlier, task, commands, calls, handles>>
      BY <1>1, Zenon DEF vars, negotiation, loop
    <2>2. \A c \in Calls : Follows(c) /\ ShutdownInv(c)'
      BY <2>1, Zenon DEF Follows, ShutdownInv, SessionInv
    <2>3. calls' \in [Calls -> CallStates] /\ task' \in {"None", "Running", "Ok", "Err"} /\ handles' \subseteq DOMAIN streams
      BY <2>1, Zenon DEF SessionInv, SessionTypes
    <2> QED
      BY <2>1, <2>2, <2>3, QuietStep, Zenon
  <1>2. ASSUME RefuseFrame PROVE SessionInv'
    BY <1>2, ReplyStep, Zenon DEF RefuseFrame, loop
  <1>3. ASSUME Statistics PROVE SessionInv'
    BY <1>3, ReplyStep, Zenon DEF Statistics, loop
  <1>4. ASSUME Serve PROVE SessionInv'
    BY <1>2, <1>3, <1>4, AcceptStep, SetDelayStep, LoopEnds, Zenon DEF Serve
  <1>5. ASSUME NEW c \in Calls, Send(c) PROVE SessionInv'
    BY <1>5, SendStep, ReturnStep, Zenon
  <1>6. ASSUME Application PROVE SessionInv'
    <2>1. ASSUME NEW c \in Calls,
                 \/ \E delay \in Delays : set_target_playout_delay(c, delay)
                 \/ statistics(c) \/ shutdown(c) \/ Send(c) \/ Proceed(c) \/ Cancel(c)
          PROVE  SessionInv'
      BY <2>1, <1>5, CallMade, ReturnStep, Zenon
    <2>2. ASSUME NEW t \in StreamTypes, Handle(t) \/ DropHandle(t) \/ \E c \in Calls : send(c, t) PROVE SessionInv'
      BY <2>2, HoldStep, CallMade, Zenon
    <2> QED
      BY <1>6, <2>1, <2>2, BuildStep, StartStep, HoldStep, Zenon DEF Application
  <1> QED
    BY <1>1, <1>4, <1>6, LoopEnds, Zenon DEF Next
-----------------------------------------------------------------------------
\* The state of a session, from build to the end of its loop, is always one the
\* invariant describes.
THEOREM SessionInductive == Spec => []SessionInv
  <1>1. Init => SessionInv
    BY InitHolds, Zenon
  <1>2. SessionInv /\ [Next]_vars => SessionInv'
    BY StepHolds, Zenon
  <1> QED
    BY <1>1, <1>2, PTL DEF Spec

\* The invariant implies that a started session is as offered and answered.
LEMMA StartImplied ==
  ASSUME SessionInv
  PROVE  StartMatchesAnswer
  <1> SUFFICES ASSUME NEW i \in DOMAIN answer, NEW a, a = answer[i], NEW told, told = serialize(offer)
               PROVE  /\ task # "None" <=>
                           /\ validate(a) /\ Range(a.send_indexes) \subseteq DOMAIN told
                           /\ \A k \in DOMAIN a.send_indexes : a.sync_sources[k] # told[a.send_indexes[k]].ssrc
                           /\ \A j, k \in DOMAIN a.send_indexes :
                                told[a.send_indexes[j]].type = told[a.send_indexes[k]].type => j = k
                      /\ task # "None" =>
                           /\ DOMAIN streams = {told[a.send_indexes[k]].type : k \in DOMAIN a.send_indexes}
                           /\ \A k \in DOMAIN a.send_indexes :
                                LET type == told[a.send_indexes[k]].type
                                IN  /\ streams[type].sender = told[a.send_indexes[k]].ssrc
                                    /\ applied = << >> => streams[type].target = told[a.send_indexes[k]].targetDelay * MILLISECOND
                                    /\ streams[type].receiver = a.sync_sources[k]
                                    /\ streams[type].adaptive <=> \E extensions \in a.rtp_extensions : extensions[k]
    BY Zenon DEF StartMatchesAnswer
  <1>1. Matches(a) /\ a \in Answers
    BY Zenon DEF SessionInv, NegotiationInv, Range
  <1>2. /\ DOMAIN told = DOMAIN offer
        /\ \A n \in DOMAIN offer : /\ told[n].type = offer[n].stream_type /\ told[n].ssrc = offer[n].sync_source
                                   /\ told[n].targetDelay * MILLISECOND = offer[n].target_delay
    <2>1. /\ DOMAIN told = DOMAIN offer
          /\ \A n \in DOMAIN offer : /\ told[n].type = offer[n].stream_type /\ told[n].ssrc = offer[n].sync_source
                                     /\ told[n].targetDelay = (offer[n].target_delay \div MILLISECOND) % (U32_MAX + 1)
      BY Zenon DEF serialize
    <2>2. \A n \in DOMAIN offer : valid_target_delay(offer[n].target_delay)
      BY Zenon DEF SessionInv, NegotiationInv
    <2>3. \A m \in 1 .. U32_MAX : m % (U32_MAX + 1) = m
      BY OfferAssumption
    <2> QED
      BY <2>1, <2>2, <2>3, Zenon DEF valid_target_delay
  <1> DEFINE took == a.send_indexes
  <1>3. \A k \in DOMAIN took : took[k] \in Range(took)
    BY Zenon DEF Range
  <1>4. Accepts(a) <=> /\ validate(a) /\ Range(took) \subseteq DOMAIN told
                       /\ \A k \in DOMAIN took : a.sync_sources[k] # told[took[k]].ssrc
                       /\ \A j, k \in DOMAIN took : told[took[j]].type = told[took[k]].type => j = k
    <2>1. CASE Range(took) \subseteq DOMAIN offer
      <3>1. \A k \in DOMAIN took : type_of(a, k) = told[took[k]].type /\ offer[took[k]].sync_source = told[took[k]].ssrc
        BY <2>1, <1>2, <1>3, Zenon DEF type_of
      <3>2. DOMAIN told = DOMAIN offer
        BY <1>2, Zenon
      <3>3. (\A k \in DOMAIN took : a.sync_sources[k] # offer[took[k]].sync_source)
            <=> \A k \in DOMAIN took : a.sync_sources[k] # told[took[k]].ssrc
        BY <3>1
      <3>4. (\A j, k \in DOMAIN took : type_of(a, j) = type_of(a, k) => j = k)
            <=> \A j, k \in DOMAIN took : told[took[j]].type = told[took[k]].type => j = k
        BY <3>1
      <3> QED
        BY <3>2, <3>3, <3>4, Zenon DEF Accepts
    <2>2. CASE ~(Range(took) \subseteq DOMAIN offer)
      BY <2>2, <1>2, Zenon DEF Accepts
    <2> QED
      BY <2>1, <2>2, Zenon
  <1>5. task # "None" <=> Accepts(a)
    BY <1>1, Zenon DEF Matches
  <1>6. ASSUME task # "None"
        PROVE  /\ DOMAIN streams = {told[took[k]].type : k \in DOMAIN took}
               /\ \A k \in DOMAIN took :
                    LET type == told[took[k]].type
                    IN  /\ streams[type].sender = told[took[k]].ssrc
                        /\ applied = << >> => streams[type].target = told[took[k]].targetDelay * MILLISECOND
                        /\ streams[type].receiver = a.sync_sources[k]
                        /\ streams[type].adaptive <=> \E extensions \in a.rtp_extensions : extensions[k]
    <2>1. Range(took) \subseteq DOMAIN offer
      BY <1>5, <1>6, Zenon DEF Accepts
    <2>2. \A k \in DOMAIN took : /\ type_of(a, k) = told[took[k]].type /\ offer[took[k]].sync_source = told[took[k]].ssrc
                                 /\ offer[took[k]].target_delay = told[took[k]].targetDelay * MILLISECOND
      BY <2>1, <1>2, <1>3, Zenon DEF type_of
    <2>3. /\ DOMAIN streams = {type_of(a, k) : k \in DOMAIN took}
          /\ \A k \in DOMAIN took :
               /\ streams[type_of(a, k)].sender = offer[took[k]].sync_source
               /\ applied = << >> => streams[type_of(a, k)].target = offer[took[k]].target_delay
               /\ streams[type_of(a, k)].receiver = a.sync_sources[k]
               /\ streams[type_of(a, k)].adaptive <=> \E extensions \in a.rtp_extensions : extensions[k]
      BY <1>1, <1>6, Zenon DEF Matches
    <2>4. DOMAIN streams = {told[took[k]].type : k \in DOMAIN took}
      BY <2>2, <2>3
    <2>5. ASSUME NEW k \in DOMAIN took
          PROVE  LET type == told[took[k]].type
                 IN  /\ streams[type].sender = told[took[k]].ssrc
                     /\ applied = << >> => streams[type].target = told[took[k]].targetDelay * MILLISECOND
                     /\ streams[type].receiver = a.sync_sources[k]
                     /\ streams[type].adaptive <=> \E extensions \in a.rtp_extensions : extensions[k]
      BY <2>2, <2>3, ZenonT(40)
    <2> QED
      BY <2>4, <2>5, Zenon
  <1> QED
    BY <1>4, <1>5, <1>6, Zenon

\* start_address opens a session exactly for the answers it should, and each of
\* its streams has what the offer and the answer say of it.
THEOREM StartSafe == Spec => []StartMatchesAnswer
  BY SessionInductive, StartImplied, PTL

\* Frames of a stream are numbered in the order of their calls of send, and every
\* caller is told the number of its own frame.
THEOREM FramesSafe == Spec => []FramesKeepOrder
  <1>1. SessionInv => FramesKeepOrder
    BY ZenonT(40) DEF SessionInv, OrderInv, CallInv, FramesKeepOrder, IsInjective
  <1> QED
    BY <1>1, SessionInductive, PTL

\* The last delay of set_target_playout_delay is on every stream, attached to a
\* frame or waiting for the next.
THEOREM DelaysSafe == Spec => []DelaysReachEveryStream
  <1>1. SessionInv => DelaysReachEveryStream
    BY Zenon DEF SessionInv, DelayInv, Told, CallInv, DelaysReachEveryStream
  <1> QED
    BY <1>1, SessionInductive, PTL

\* shutdown returns how the loop has ended.
THEOREM ShutdownSafe == Spec => []ShutdownReturnsResult
  <1>1. SessionInv => ShutdownReturnsResult
    BY Zenon DEF SessionInv, ShutdownInv, ShutdownReturnsResult
  <1> QED
    BY <1>1, SessionInductive, PTL
-----------------------------------------------------------------------------
\* What is offered was built from what was configured.
OfferIsBuilt ==
  \/ configured = << >> /\ offer = << >>
  \/ \E cs \in Configurations : configured = <<cs>> /\ (offer = << >> \/ offer \in build(cs))

\* Only build makes an offer, and it makes one.
LEMMA OfferKept ==
  ASSUME OfferIsBuilt, [Next]_vars
  PROVE  OfferIsBuilt'
  <1>1. ASSUME NEW cs \in Configurations, Build(cs) PROVE OfferIsBuilt'
    BY <1>1, Zenon DEF Build, OfferIsBuilt
  <1>2. CASE UNCHANGED <<configured, offer>>
    BY <1>2, Zenon DEF OfferIsBuilt
  <1>3. CASE Serve \/ LoopFails \/ UNCHANGED vars
    <2>1. UNCHANGED <<configured, offer>>
      BY <1>3, Zenon DEF Serve, LoopFails, vars, negotiation, AcceptFrame, RefuseFrame, SetDelay, Statistics,
            Shutdown, Abandoned, Take
    <2> QED
      BY <1>2, <2>1, Zenon
  <1>4. ASSUME NEW a \in Answers, Start(a) PROVE UNCHANGED <<configured, offer>>
    BY <1>4, Zenon DEF Start
  <1>5. ASSUME NEW t \in StreamTypes, Handle(t) \/ DropHandle(t) \/ \E c \in Calls : send(c, t)
        PROVE  UNCHANGED <<configured, offer>>
    BY <1>5, Zenon DEF Handle, DropHandle, send, Issue, negotiation
  <1>6. ASSUME NEW c \in Calls,
               \/ \E delay \in Delays : set_target_playout_delay(c, delay)
               \/ statistics(c) \/ shutdown(c) \/ Send(c) \/ Proceed(c) \/ Cancel(c)
        PROVE  UNCHANGED <<configured, offer>>
    BY <1>6, Zenon DEF set_target_playout_delay, statistics, shutdown, Send, Proceed, Cancel, Issue, Finish,
          Queued, negotiation
  <1>7. ASSUME DropSession PROVE UNCHANGED <<configured, offer>>
    BY <1>7, Zenon DEF DropSession, negotiation
  <1> QED
    BY <1>1, <1>2, <1>3, <1>4, <1>5, <1>6, <1>7, Zenon DEF Next, Application

\* An offer that was built says on the wire what was configured.
LEMMA OfferImplied ==
  ASSUME OfferIsBuilt
  PROVE  OfferIsAsConfigured
  <1>1. SUFFICES ASSUME offer # << >> PROVE OfferIsAsConfigured
    BY Zenon DEF OfferIsAsConfigured
  <1>2. PICK cs \in Configurations : configured = <<cs>> /\ offer \in build(cs)
    BY <1>1, Zenon DEF OfferIsBuilt
  <1>3. configured[1] = cs
    BY <1>2
  <1>4. cs \in Seq(Configured)
    BY SessionAssumption, Zenon DEF Configured
  <1>5. PICK o \in build(cs) : o = offer
    BY <1>2, Zenon
  <1>6. /\ Len(o) = Len(cs) /\ DOMAIN o = 1 .. Len(o)
        /\ \E at \in Bijection(DOMAIN cs, DOMAIN o) :
             /\ \A i \in DOMAIN cs : /\ o[at[i]].stream_type = cs[i].type
                                     /\ o[at[i]].target_delay = cs[i].target_delay
             /\ \A i, j \in DOMAIN cs : cs[i].type = cs[j].type /\ i < j => at[i] < at[j]
             /\ \A i, j \in DOMAIN cs : cs[i].type = "Audio" /\ cs[j].type # "Audio" => at[i] < at[j]
    BY <1>4, BuildPlaces, Zenon
  <1>7. \A i \in DOMAIN o : valid_target_delay(o[i].target_delay)
    BY <1>4, BuildFacts, Zenon
  <1>8. PICK at \in Bijection(DOMAIN cs, DOMAIN o) :
             /\ \A i \in DOMAIN cs : /\ o[at[i]].stream_type = cs[i].type
                                     /\ o[at[i]].target_delay = cs[i].target_delay
             /\ \A i, j \in DOMAIN cs : cs[i].type = cs[j].type /\ i < j => at[i] < at[j]
             /\ \A i, j \in DOMAIN cs : cs[i].type = "Audio" /\ cs[j].type # "Audio" => at[i] < at[j]
    BY <1>6, Zenon
  <1> DEFINE wire     == serialize(o)
             place(i) == [type |-> wire[i].type, delay |-> wire[i].targetDelay * MILLISECOND]
             asked(i) == [type |-> cs[i].type, delay |-> cs[i].target_delay]
             order(i) == IF asked(i).type = "Audio" THEN i ELSE Len(o) + i
  <1>9. \A n \in DOMAIN o : wire[n].type = o[n].stream_type /\ wire[n].targetDelay * MILLISECOND = o[n].target_delay
    <2>1. \A n \in DOMAIN o : /\ wire[n].type = o[n].stream_type
                              /\ wire[n].targetDelay = (o[n].target_delay \div MILLISECOND) % (U32_MAX + 1)
      BY Zenon DEF serialize
    <2>2. \A m \in 1 .. U32_MAX : m % (U32_MAX + 1) = m
      BY OfferAssumption
    <2> QED
      BY <1>7, <2>1, <2>2, Zenon DEF valid_target_delay
  <1> HIDE DEF wire
  <1>10. \A i \in DOMAIN cs : at[i] \in DOMAIN o
    BY Zenon DEF Bijection, Injection
  <1>11. \A i \in DOMAIN cs : place(at[i]) = asked(i)
    BY <1>8, <1>9, <1>10, Zenon
  <1>12. ASSUME NEW i \in DOMAIN cs, NEW j \in DOMAIN cs, order(i) < order(j)
         PROVE  at[i] < at[j]
    <2>1. i \in 1 .. Len(cs) /\ j \in 1 .. Len(cs) /\ Len(cs) \in Nat
      BY <1>4
    <2>2. CASE cs[i].type = "Audio" /\ cs[j].type = "Audio"
      <3>1. i < j
        BY <1>12, <2>2, Zenon
      <3> QED
        BY <1>8, <2>2, <3>1, Zenon
    <2>3. CASE cs[i].type = "Audio" /\ cs[j].type # "Audio"
      BY <1>8, <2>3, Zenon
    <2>4. CASE cs[i].type # "Audio" /\ cs[j].type = "Audio"
      <3>1. Len(cs) + i < j
        BY <1>6, <1>12, <2>4, Zenon
      <3> QED
        BY <2>1, <3>1
    <2>5. CASE cs[i].type # "Audio" /\ cs[j].type # "Audio"
      <3>1. Len(cs) + i < Len(cs) + j
        BY <1>6, <1>12, <2>5, Zenon
      <3>2. i < j
        BY <2>1, <3>1
      <3>3. cs[i].type = cs[j].type
        <4>1. cs[i] \in Configured /\ cs[j] \in Configured
          BY <1>4, <2>1
        <4> QED
          BY <2>5, <4>1, Zenon DEF Configured, StreamTypes
      <3> QED
        BY <1>8, <3>2, <3>3, Zenon
    <2> QED
      BY <2>2, <2>3, <2>4, <2>5, Zenon
  <1>13. /\ Len(o) = Len(cs)
         /\ \E x \in Bijection(DOMAIN cs, DOMAIN o) :
              \A i, j \in DOMAIN cs : place(x[i]) = asked(i) /\ (order(i) < order(j) => x[i] < x[j])
    <2> HIDE DEF place, asked, order
    <2> QED
      BY <1>6, <1>11, <1>12, ZenonT(40)
  <1> QED
    BY <1>3, <1>5, <1>13, Zenon DEF OfferIsAsConfigured, wire

\* The offer a receiver sees has every configuration once, the audio ones first,
\* each with the delay asked for, whatever build was called with.
THEOREM OfferSafe == Spec => []OfferIsAsConfigured
  <1>1. Init => OfferIsBuilt
    BY Zenon DEF Init, OfferIsBuilt
  <1>2. OfferIsBuilt /\ [Next]_vars => OfferIsBuilt'
    BY OfferKept, Zenon
  <1> QED
    BY <1>1, <1>2, OfferImplied, PTL DEF Spec
=============================================================================
