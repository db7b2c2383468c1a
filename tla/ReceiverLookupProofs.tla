------------------------ MODULE ReceiverLookupProofs ------------------------
(* The safety of finding a receiver and of connecting to it, for any services *)
(* and events, certificates, replies and revocation lists.                    *)
EXTENDS ReceiverLookup, SequenceTheorems, FiniteSetTheorems, WellFoundedInduction, TLAPS

-----------------------------------------------------------------------------
(* Connecting.                                                                *)

\* A path verify_chain finds runs from the leaf to a root, and each certificate on
\* it is issued by the next.
LEMMA ChainFacts ==
  ASSUME NEW leaf, NEW intermediates, NEW p \in verify_chain(leaf, intermediates)
  PROVE  /\ Len(p) \in Nat /\ DOMAIN p = 1 .. Len(p)
         /\ p[1] = leaf /\ p[Len(p)] \in Roots
         /\ \A i \in 1 .. Len(p) - 1 : Certificates[p[i]].issuer = Certificates[p[i + 1]].key
  <1>1. PICK q \in Selections(intermediates), root \in Roots : p = <<leaf>> \o q \o <<root>>
    BY Zenon DEF verify_chain
  <1>2. PICK n \in 0 .. Cardinality(intermediates) : q \in [1 .. n -> intermediates]
    BY <1>1, Zenon DEF Selections
  <1> DEFINE S == intermediates \cup {leaf, root}
  <1>3. q \in Seq(S) /\ <<leaf>> \in Seq(S) /\ <<root>> \in Seq(S)
    <2>1. n \in Nat /\ q \in [1 .. n -> S]
      BY <1>2
    <2> HIDE DEF S
    <2>2. q \in Seq(S)
      BY <2>1
    <2> QED
      BY <2>2 DEF S
  <1> HIDE DEF S
  <1>4. /\ Len(p) = Len(q) + 2 /\ Len(q) \in Nat /\ DOMAIN p = 1 .. Len(p)
        /\ p[1] = leaf /\ p[Len(p)] = root
    BY <1>1, <1>3
  <1>5. \A i \in 1 .. Len(p) - 1 : Certificates[p[i]].issuer = Certificates[p[i + 1]].key
    BY DEF verify_chain
  <1> QED
    BY <1>4, <1>5

\* What a connection rests on from the time its reply is verified: that very reply,
\* for the nonce of this connection and the certificate of its peer.
LinkInv ==
  link \in {"Authenticated", "Open"} =>
    /\ verify_challenge_reply(proof.reply, connects, peer, proof.path)
    /\ identity = device_identity(proof.reply, proof.path)

\* The steps of connect_address_inner and authenticate_receiver keep it.
LEMMA LinkStep ==
  ASSUME LinkInv, LinkNext
  PROVE  LinkInv'
  <1>1. ASSUME Dropped PROVE LinkInv'
    BY <1>1 DEF Dropped, LinkInv
  <1>2. ASSUME link' \notin {"Authenticated", "Open"} PROVE LinkInv'
    BY <1>2, Zenon DEF LinkInv
  <1>3. CASE Connect
    BY <1>2, <1>3 DEF Connect
  <1>9. CASE TcpConnected
    BY <1>2, <1>9 DEF TcpConnected
  <1>4. ASSUME NEW der \in TlsCertificates, Handshake(der) PROVE LinkInv'
    BY <1>2, <1>4 DEF Handshake
  <1>5. CASE SendChallenge
    BY <1>2, <1>5 DEF SendChallenge
  <1>6. ASSUME NEW reply, ReceiveReply(reply) PROVE LinkInv'
    <2>1. ASSUME NEW path, verify_challenge_reply(reply, connects, peer, path),
                 identity' = device_identity(reply, path), proof' = [reply |-> reply, path |-> path],
                 UNCHANGED <<connects, peer>>
          PROVE  LinkInv'
      <3>1. proof'.reply = reply /\ proof'.path = path /\ connects' = connects /\ peer' = peer
        BY <2>1
      <3>2. verify_challenge_reply(proof'.reply, connects', peer', proof'.path)
        BY <2>1, <3>1, Zenon
      <3>3. identity' = device_identity(proof'.reply, proof'.path)
        BY <2>1, <3>1, Zenon
      <3> QED
        BY <3>2, <3>3, Zenon DEF LinkInv
    <2> QED
      BY <1>1, <1>6, <2>1, Zenon DEF ReceiveReply
  <1>7. CASE SendConnect
    BY <1>7, Zenon DEF SendConnect, LinkInv
  <1>8. CASE ConnectFails \/ AuthenticationFails
    BY <1>1, <1>8, Zenon DEF ConnectFails, AuthenticationFails
  <1> QED
    BY <1>3, <1>4, <1>5, <1>6, <1>7, <1>8, <1>9, Zenon DEF LinkNext

\* Every step of a lookup keeps it: nothing but a verified reply authenticates.
LEMMA LookupKeepsLink ==
  ASSUME LinkInv, [LookupNext]_lookup_vars
  PROVE  LinkInv'
  <1>1. ASSUME UNCHANGED link_vars PROVE LinkInv'
    BY <1>1, Zenon DEF link_vars, LinkInv
  <1>2. ASSUME link' \notin {"Authenticated", "Open"} PROVE LinkInv'
    BY <1>2, Zenon DEF LinkInv
  <1>3. CASE Discover(DiscoveryNext)
    BY <1>1, <1>3, Zenon DEF Discover
  <1>4. ASSUME NEW endpoint, Select(endpoint) PROVE LinkInv'
    BY <1>1, <1>4, Zenon DEF Select
  <1>5. CASE Link(LinkNext)
    BY <1>5, LinkStep, Zenon DEF Link
  <1>6. CASE Disconnect
    BY <1>2, <1>6 DEF Disconnect, Dropped
  <1>7. CASE get_setup_device_info
    BY <1>2, <1>7 DEF get_setup_device_info
  <1>8. CASE Setup(QueryNext)
    BY <1>1, <1>8, Zenon DEF Setup
  <1>9. CASE Tick
    BY <1>1, <1>9, Zenon DEF Tick
  <1>10. CASE UNCHANGED lookup_vars
    BY <1>1, <1>10, Zenon DEF lookup_vars
  <1> QED
    BY <1>3, <1>4, <1>5, <1>6, <1>7, <1>8, <1>9, <1>10, Zenon DEF LookupNext

\* A connection is authenticated by the reply it has verified, through all of
\* connect_address_inner and what the application does with it.
THEOREM LinkInductive == LookupSpec => []LinkInv
  <1>1. LookupInit => LinkInv
    BY DEF LookupInit, LinkInit, LinkInv
  <1> QED
    BY <1>1, LookupKeepsLink, PTL DEF LookupSpec

\* A connection that opens has a reply signed for its own nonce and certificate, by
\* the key of a certificate that a root vouches for, and is restricted to audio
\* exactly when a certificate of that path is (verify_challenge_reply).
THEOREM IdentitySafe == LookupSpec => []IdentityIsProven
  <1>1. ASSUME LinkInv PROVE IdentityIsProven
    <2> SUFFICES ASSUME link = "Open" PROVE
          /\ proof.reply.signature = [key |-> Certificates[identity.certificate].key, over |-> <<connects, peer.id>>]
          /\ proof.path[1] = identity.certificate /\ proof.path[Len(proof.path)] \in Roots
          /\ \A i \in 2 .. Len(proof.path) : Certificates[proof.path[i - 1]].issuer = Certificates[proof.path[i]].key
          /\ identity.audio_only <=> \E name \in Range(proof.path) : Certificates[name].audio_only
      BY Zenon DEF IdentityIsProven
    <2> DEFINE reply == proof.reply
               path == proof.path
    <2>1. /\ verify_challenge_reply(reply, connects, peer, path)
          /\ identity = device_identity(reply, path)
      BY <1>1, Zenon DEF LinkInv
    <2>2. identity.certificate = reply.leaf /\ identity.audio_only = audio_only(path)
      BY <2>1 DEF device_identity
    <2>3. path \in verify_chain(reply.leaf, reply.intermediates)
      BY <2>1, Zenon DEF verify_challenge_reply
    <2>4. reply.signature = [key |-> Certificates[reply.leaf].key, over |-> <<connects, peer.id>>]
      BY <2>1, Zenon DEF verify_challenge_reply, verify_auth_signature, auth_signature_input
    <2>5. /\ Len(path) \in Nat /\ DOMAIN path = 1 .. Len(path)
          /\ path[1] = reply.leaf /\ path[Len(path)] \in Roots
          /\ \A i \in 1 .. Len(path) - 1 : Certificates[path[i]].issuer = Certificates[path[i + 1]].key
      BY <2>3, ChainFacts
    <2> HIDE DEF path, reply
    <2>6. \A i \in 2 .. Len(path) : Certificates[path[i - 1]].issuer = Certificates[path[i]].key
      <3> TAKE i \in 2 .. Len(path)
      <3>1. i - 1 \in 1 .. Len(path) - 1 /\ (i - 1) + 1 = i
        BY <2>5
      <3> QED
        BY <2>5, <3>1
    <2>7. audio_only(path) <=> \E name \in Range(path) : Certificates[name].audio_only
      BY Zenon DEF audio_only, Range
    <2> QED
      BY <2>2, <2>4, <2>5, <2>6, <2>7, Zenon DEF path, reply
  <1> QED
    BY <1>1, LinkInductive, PTL

\* A connection that opens with revocation information has a list of it that is
\* signed and current and revokes no key of its path and no serial under the key
\* that issued it (parse_and_verify_crl, Revocations::check_chain_at).
THEOREM RevocationSafe == LookupSpec => []RevokedIsRefused
  <1>1. ASSUME LinkInv, link = "Open" PROVE RevokedIsRefused
    <2> DEFINE reply == proof.reply
               path == proof.path
               bundle == reply.crl[1]
    <2>1. /\ verify_challenge_reply(reply, connects, peer, path)
          /\ identity = device_identity(reply, path)
      BY <1>1, Zenon DEF LinkInv
    <2>2. identity.revocation_checked = (reply.crl # << >>)
      BY <2>1 DEF device_identity
    <2>3. path \in verify_chain(reply.leaf, reply.intermediates) /\ revocation_passes(reply.crl, path)
      BY <2>1, Zenon DEF verify_challenge_reply
    <2>4. /\ Len(path) \in Nat /\ DOMAIN path = 1 .. Len(path) /\ path[Len(path)] \in Roots
          /\ \A i \in 1 .. Len(path) - 1 : Certificates[path[i]].issuer = Certificates[path[i + 1]].key
      BY <2>3, ChainFacts
    <2> HIDE DEF path, reply
    <2>5. ASSUME reply.crl # << >>
          PROVE  \E list \in Range(bundle) :
                   /\ list.signed /\ Now \in list.not_before .. list.not_after
                   /\ \A name \in Range(path) :
                        LET certificate == Certificates[name]
                        IN  /\ certificate.key \notin list.keys
                            /\ certificate.serial >= 0 /\ name \notin Roots =>
                                 \A r \in list.ranges :
                                   r.issuer = certificate.issuer => certificate.serial \notin r.first .. r.last
      <3>1. PICK list \in parse_and_verify_crl(bundle) : check_chain_at(list, path)
        BY <2>3, <2>5, Zenon DEF revocation_passes
      <3>2. list \in Range(bundle) /\ parse_and_verify_one_crl(list)
        BY <3>1, Zenon DEF parse_and_verify_crl, Range
      <3>3. list.signed
        BY <3>2, Zenon DEF parse_and_verify_one_crl
      <3>4. Now \in list.not_before .. list.not_after
        BY <3>1, Zenon DEF check_chain_at
      <3>5. ASSUME NEW name \in Range(path)
            PROVE  /\ Certificates[name].key \notin list.keys
                   /\ Certificates[name].serial >= 0 /\ name \notin Roots =>
                        \A r \in list.ranges :
                          r.issuer = Certificates[name].issuer => Certificates[name].serial \notin r.first .. r.last
        <4>1. PICK i \in 1 .. Len(path) : name = path[i]
          BY <2>4, <3>5, Zenon DEF Range
        <4>2. Certificates[name].key \notin list.keys
          BY <2>4, <3>1, <4>1, Zenon DEF check_chain_at
        <4>3. ASSUME name \notin Roots, Certificates[name].serial >= 0, NEW r \in list.ranges,
                     r.issuer = Certificates[name].issuer
              PROVE  Certificates[name].serial \notin r.first .. r.last
          <5>1. /\ i \in 1 .. Len(path) - 1 /\ i + 1 \in 1 .. Len(path) /\ i + 1 > 1 /\ (i + 1) - 1 = i
            BY <2>4, <4>1, <4>3
          <5>2. r.issuer = Certificates[path[i + 1]].key
            BY <2>4, <4>1, <4>3, <5>1, Zenon
          <5>3. ~serial_in(Certificates[name].serial, {x \in list.ranges : x.issuer = Certificates[path[i + 1]].key})
            BY <2>4, <3>1, <4>1, <5>1, Zenon DEF check_chain_at
          <5> QED
            BY <4>3, <5>2, <5>3, Zenon DEF serial_in
        <4> QED
          BY <4>2, <4>3, Zenon
      <3> QED
        BY <3>2, <3>3, <3>4, <3>5, Zenon
    <2> QED
      BY <2>2, <2>5, Zenon DEF RevokedIsRefused, path, reply
  <1>2. LinkInv => RevokedIsRefused
    BY <1>1, Zenon DEF RevokedIsRefused
  <1> QED
    BY <1>2, LinkInductive, PTL
-----------------------------------------------------------------------------
(* Numbers.                                                                   *)

\* A non-empty set of naturals has a least element.
LEMMA LeastNat ==
  ASSUME NEW T \in SUBSET Nat, T # {}
  PROVE  \E n \in T : \A m \in T : ~(m < n)
  <1>1. PICK x \in T : \A y \in T : ~(<<y, x>> \in OpToRel(<, Nat))
    BY NatLessThanWellFounded, WFMin, Zenon
  <1> WITNESS x \in T
  <1> QED
    BY <1>1, Zenon DEF OpToRel

\* What holds of 0 and of the next number holds of all.
LEMMA Climb ==
  ASSUME NEW n \in Nat, NEW X, 0 \in X, \A i \in 1 .. n : i - 1 \in X => i \in X
  PROVE  \A i \in 0 .. n : i \in X
  <1> DEFINE T == {i \in 0 .. n : i \notin X}
  <1>1. SUFFICES ASSUME T # {} PROVE FALSE
    OBVIOUS
  <1>2. T \in SUBSET Nat
    OBVIOUS
  <1>3. PICK m \in T : \A x \in T : ~(x < m)
    BY <1>1, <1>2, LeastNat, Zenon
  <1>4. m \in 0 .. n /\ m \notin X /\ m # 0
    BY <1>3, Zenon
  <1>5. m \in 1 .. n /\ m - 1 \in 0 .. n /\ m - 1 < m
    BY <1>4
  <1>6. m - 1 \notin T
    BY <1>3, <1>5, Zenon
  <1> QED
    BY <1>4, <1>5, <1>6, Zenon

\* Max of numbers up to n is the greatest of them.
LEMMA MaxFacts ==
  ASSUME NEW n \in Nat, NEW S \in SUBSET (1 .. n), S # {}
  PROVE  Max(S) \in S /\ \A y \in S : y <= Max(S)
  <1> DEFINE T == {m \in Nat : \A y \in S : y <= m}
  <1>1. n \in T
    OBVIOUS
  <1>2. PICK m \in T : \A x \in T : ~(x < m)
    BY <1>1, LeastNat, Zenon
  <1>3. m \in Nat /\ \A y \in S : y <= m
    BY <1>2, Zenon
  <1>4. m \in S
    <2> SUFFICES ASSUME m \notin S PROVE FALSE
      OBVIOUS
    <2>1. PICK y \in S : TRUE
      BY Zenon
    <2>2. m - 1 \in Nat /\ m - 1 < m
      BY <1>3, <2>1
    <2>3. \A z \in S : z <= m - 1
      BY <1>3
    <2>4. m - 1 \in T
      BY <2>2, <2>3, Zenon
    <2> QED
      BY <1>2, <2>2, <2>4, Zenon
  <1>5. \A y \in S : m >= y
    BY <1>3, <1>4
  <1>6. Max(S) \in S /\ \A y \in S : Max(S) >= y
    BY <1>4, <1>5, Zenon DEF Max
  <1> QED
    BY <1>6
-----------------------------------------------------------------------------
(* Routes.                                                                    *)
Routes == UNION {usable_endpoints(service) : service \in Services}

\* No route is preferred to the first.
BestFirst(s) == \A i \in DOMAIN s : endpoint_priority(s[1]) <= endpoint_priority(s[i])

\* s has the routes of R, the best of them first.
Orders(s, R) == s \in Seq(Routes) /\ Range(s) = R /\ BestFirst(s)

\* A route has one of the three families, and so a priority.
LEMMA PriorityType ==
  ASSUME NEW e \in Routes
  PROVE  endpoint_priority(e) \in Nat
  <1>1. PICK service \in Services : e \in usable_endpoints(service)
    BY Zenon DEF Routes
  <1>2. PICK a \in service.addresses : e \in append_endpoints(a, service.port)
    BY <1>1, Zenon DEF usable_endpoints
  <1>3. a.family \in {"V4", "Global", "LinkLocal"}
    BY DiscoveryAssumption, Zenon
  <1>4. e.family = a.family
    BY <1>2 DEF append_endpoints
  <1> QED
    BY <1>3, <1>4 DEF endpoint_priority

\* How many of the first n pass is at most n, and 0 only when none does.
LEMMA CountFacts ==
  ASSUME NEW n \in Nat, NEW S \in SUBSET (1 .. n)
  PROVE  Cardinality(S) \in 0 .. n /\ (Cardinality(S) = 0 <=> S = {})
  <1>1. IsFiniteSet(1 .. n) /\ Cardinality(1 .. n) = n
    <2>1. 1 \in Int /\ n \in Int /\ (IF 1 > n THEN 0 ELSE n - 1 + 1) = n
      OBVIOUS
    <2> QED
      BY <2>1, FS_Interval
  <1>2. IsFiniteSet(S) /\ Cardinality(S) <= n
    BY <1>1, FS_Subset, Zenon
  <1>3. Cardinality(S) \in Nat
    BY <1>2, FS_CardinalityType, Zenon
  <1>4. Cardinality(S) = 0 <=> S = {}
    BY <1>2, FS_EmptySet, Zenon
  <1> QED
    BY <1>2, <1>3, <1>4

\* A route that is inserted is added, and the best stays first.
LEMMA InsertFacts ==
  ASSUME NEW R, NEW s, Orders(s, R), NEW e \in Routes
  PROVE  Orders(insert(s, e), R \cup {e})
  <1> DEFINE S == {i \in DOMAIN s : ~precedes(e, s[i])}
             b == Cardinality(S)
             n == Len(s)
             t == insert(s, e)
  <1>1. s \in Seq(Routes) /\ n \in Nat /\ DOMAIN s = 1 .. n /\ Range(s) = R /\ \A i \in 1 .. n : s[i] \in Routes
    BY DEF Orders
  <1>2. b \in 0 .. n /\ (b = 0 <=> S = {})
    <2>1. S \in SUBSET (1 .. n)
      BY <1>1, Zenon
    <2> HIDE DEF S
    <2> QED
      BY <1>1, <2>1, CountFacts, Zenon
  <1>3. t = SubSeq(s, 1, b) \o <<e>> \o SubSeq(s, b + 1, n)
    BY Zenon DEF insert
  <1> HIDE DEF b, t, n
  <1>4. /\ SubSeq(s, 1, b) \in Seq(Routes) /\ Len(SubSeq(s, 1, b)) = b
        /\ \A i \in 1 .. b : SubSeq(s, 1, b)[i] = s[i]
    BY <1>1, <1>2 DEF n
  <1>5. /\ SubSeq(s, b + 1, n) \in Seq(Routes) /\ Len(SubSeq(s, b + 1, n)) = n - b
        /\ \A i \in 1 .. n - b : SubSeq(s, b + 1, n)[i] = s[b + i]
    <2>1. /\ b + 1 \in Int /\ n \in Int /\ n - (b + 1) + 1 = n - b
          /\ (IF b + 1 <= n THEN n - b ELSE 0) = n - b
          /\ \A i \in b + 1 .. n : i \in 1 .. n
          /\ \A i \in 1 .. n - b : (b + 1) + i - 1 = b + i
      BY <1>1, <1>2
    <2>2. \A i \in b + 1 .. n : s[i] \in Routes
      BY <1>1, <2>1, Zenon
    <2> QED
      BY <2>1, <2>2, SubSeqProperties
  <1>6. /\ t \in Seq(Routes) /\ Len(t) = n + 1 /\ DOMAIN t = 1 .. n + 1
        /\ \A i \in 1 .. b : t[i] = s[i]
        /\ t[b + 1] = e
        /\ \A i \in b + 2 .. n + 1 : t[i] = s[i - 1]
    <2> DEFINE u == SubSeq(s, 1, b)
               w == SubSeq(s, b + 1, n)
    <2>1. u \in Seq(Routes) /\ w \in Seq(Routes) /\ Len(u) = b /\ Len(w) = n - b /\ t = u \o <<e>> \o w
          /\ <<e>> \in Seq(Routes)
      BY <1>3, <1>4, <1>5
    <2>2. (\A i \in 1 .. b : u[i] = s[i]) /\ (\A i \in 1 .. n - b : w[i] = s[b + i])
      BY <1>4, <1>5, Zenon
    <2> HIDE DEF u, w
    <2> DEFINE v == u \o <<e>>
    <2>3. n \in Nat /\ b \in 0 .. n
      BY <1>1, <1>2, Zenon
    <2>4. v \in Seq(Routes) /\ Len(v) = b + 1 /\ (\A i \in 1 .. b : v[i] = u[i]) /\ v[b + 1] = e
      <3> DEFINE o == <<e>>
      <3>1. o \in Seq(Routes) /\ Len(o) = 1 /\ o[1] = e
        OBVIOUS
      <3>2. v = u \o o
        OBVIOUS
      <3> HIDE DEF o, v
      <3>3. /\ v \in Seq(Routes) /\ Len(v) = Len(u) + Len(o)
            /\ \A i \in 1 .. Len(u) + Len(o) : v[i] = IF i <= Len(u) THEN u[i] ELSE o[i - Len(u)]
        BY <2>1, <3>1, <3>2, ConcatProperties, Zenon
      <3>4. /\ Len(u) + Len(o) = b + 1 /\ b + 1 \in 1 .. b + 1 /\ ~(b + 1 <= Len(u)) /\ (b + 1) - Len(u) = 1
            /\ \A i \in 1 .. b : i \in 1 .. b + 1 /\ i <= Len(u)
        BY <2>1, <2>3, <3>1
      <3> QED
        BY <3>1, <3>3, <3>4, Zenon
    <2>5. t = v \o w
      BY <2>1, Zenon
    <2> HIDE DEF v
    <2>6. /\ t \in Seq(Routes) /\ Len(t) = Len(v) + Len(w)
          /\ \A i \in 1 .. Len(v) + Len(w) : t[i] = IF i <= Len(v) THEN v[i] ELSE w[i - Len(v)]
      BY <2>1, <2>4, <2>5, ConcatProperties
    <2>7. /\ Len(v) + Len(w) = n + 1
          /\ \A i \in 1 .. b + 1 : i \in 1 .. n + 1 /\ i <= Len(v)
          /\ \A i \in 1 .. b : i \in 1 .. b + 1
          /\ b + 1 \in 1 .. b + 1
          /\ \A i \in b + 2 .. n + 1 : /\ i \in 1 .. n + 1 /\ ~(i <= Len(v)) /\ i - Len(v) \in 1 .. n - b
                                       /\ b + (i - Len(v)) = i - 1
      BY <2>1, <2>3, <2>4
    <2>8. Len(t) = n + 1 /\ DOMAIN t = 1 .. n + 1
      BY <2>3, <2>6, <2>7
    <2>9. (\A i \in 1 .. b : t[i] = s[i]) /\ t[b + 1] = e
      BY <2>2, <2>4, <2>6, <2>7, Zenon
    <2>10. \A i \in b + 2 .. n + 1 : t[i] = s[i - 1]
      BY <2>2, <2>6, <2>7, Zenon
    <2> QED
      BY <2>6, <2>8, <2>9, <2>10, Zenon
  <1>7. /\ \A i \in 1 .. n + 1 : i \in 1 .. b \/ i = b + 1 \/ (i \in b + 2 .. n + 1 /\ i - 1 \in 1 .. n)
        /\ \A i \in 1 .. b : i \in 1 .. n
        /\ \A i \in 1 .. n : (i \in 1 .. b \/ (i + 1 \in b + 2 .. n + 1 /\ (i + 1) - 1 = i)) /\ i \in 1 .. n + 1 /\ i + 1 \in 1 .. n + 1
        /\ b + 1 \in 1 .. n + 1
    BY <1>1, <1>2
  <1>8. \A i \in 1 .. n + 1 : t[i] = e \/ \E j \in 1 .. n : t[i] = s[j]
    BY <1>6, <1>7, Zenon
  <1>9. \A j \in 1 .. n : \E i \in 1 .. n + 1 : t[i] = s[j]
    BY <1>6, <1>7, Zenon
  <1>10. Range(t) = R \cup {e}
    <2>1. \A x \in Range(t) : x \in R \cup {e}
      BY <1>1, <1>6, <1>8 DEF Range
    <2>2. \A x \in R : x \in Range(t)
      BY <1>1, <1>6, <1>9 DEF Range
    <2>3. e \in Range(t)
      BY <1>6, <1>7, Zenon DEF Range
    <2> QED
      BY <2>1, <2>2, <2>3, Zenon
  <1>11. \A r \in Routes : endpoint_priority(r) \in Nat
    BY PriorityType, Zenon
  <1>12. \A i \in 1 .. n : endpoint_priority(s[1]) <= endpoint_priority(s[i])
    BY <1>1, Zenon DEF Orders, BestFirst
  <1>13. endpoint_priority(t[1]) <= endpoint_priority(e) /\ \A j \in 1 .. n : endpoint_priority(t[1]) <= endpoint_priority(s[j])
    <2>1. CASE b = 0
      <3>1. t[1] = e
        BY <1>6, <2>1
      <3>2. ASSUME NEW j \in 1 .. n PROVE endpoint_priority(e) <= endpoint_priority(s[j])
        <4>1. precedes(e, s[j])
          BY <1>1, <1>2, <2>1, Zenon
        <4>2. endpoint_priority(e) < endpoint_priority(s[j]) \/ endpoint_priority(e) = endpoint_priority(s[j])
          BY <4>1, Zenon DEF precedes
        <4>3. endpoint_priority(e) \in Nat /\ endpoint_priority(s[j]) \in Nat
          BY <1>1, <1>11, Zenon
        <4> QED
          BY <4>2, <4>3
      <3>3. endpoint_priority(e) <= endpoint_priority(e)
        <4>1. endpoint_priority(e) \in Nat
          BY <1>11, Zenon
        <4> QED
          BY <4>1
      <3> QED
        BY <3>1, <3>2, <3>3, Zenon
    <2>2. CASE b # 0
      <3>1. 1 \in 1 .. b /\ 1 \in 1 .. n
        BY <1>1, <1>2, <2>2
      <3>2. t[1] = s[1]
        BY <1>6, <3>1, Zenon
      <3>3. PICK j \in 1 .. n : ~precedes(e, s[j])
        BY <1>1, <1>2, <2>2, Zenon
      <3>4. ~(endpoint_priority(e) < endpoint_priority(s[j]))
        BY <3>3, Zenon DEF precedes
      <3>5. /\ endpoint_priority(e) \in Nat /\ endpoint_priority(s[j]) \in Nat /\ endpoint_priority(s[1]) \in Nat
            /\ endpoint_priority(s[1]) <= endpoint_priority(s[j])
        BY <1>1, <1>11, <1>12, <3>1, Zenon
      <3>6. endpoint_priority(s[1]) <= endpoint_priority(e)
        BY <3>4, <3>5
      <3> QED
        BY <1>12, <3>2, <3>6, Zenon
    <2> QED
      BY <2>1, <2>2, Zenon
  <1>14. BestFirst(t)
    BY <1>6, <1>8, <1>13, Zenon DEF BestFirst
  <1> QED
    BY <1>6, <1>10, <1>14, Zenon DEF Orders, t

\* The recursive function of sort_by, up to n.
Sorting(endpoints, n, k) ==
  k = [i \in 0 .. n |-> IF i = 0 THEN << >> ELSE insert(k[i - 1], endpoints[i])]

\* It exists.
LEMMA SortingExists ==
  ASSUME NEW endpoints, NEW n \in Nat
  PROVE  \E k : Sorting(endpoints, n, k)
  <1> DEFINE X == {m \in 0 .. n : \E k : Sorting(endpoints, m, k)}
  <1>1. 0 \in X
    <2>1. Sorting(endpoints, 0, [i \in 0 .. 0 |-> << >>])
      BY DEF Sorting
    <2>2. 0 \in 0 .. n
      OBVIOUS
    <2> QED
      BY <2>1, <2>2, Zenon
  <1>2. ASSUME NEW m \in 1 .. n, m - 1 \in X PROVE m \in X
    <2>1. PICK k : Sorting(endpoints, m - 1, k)
      BY <1>2, Zenon
    <2> DEFINE v == insert(k[m - 1], endpoints[m])
               h == [i \in 0 .. m |-> IF i = m THEN v ELSE k[i]]
    <2>2. /\ \A i \in 0 .. m : i # m => i \in 0 .. m - 1
          /\ m # 0 /\ m \in 0 .. n
      OBVIOUS
    <2>3. ASSUME NEW i \in 0 .. m
          PROVE  h[i] = IF i = 0 THEN << >> ELSE insert(h[i - 1], endpoints[i])
      <3>1. i # 0 => i - 1 \in 0 .. m /\ i - 1 # m
        OBVIOUS
      <3> HIDE DEF v
      <3>2. i # 0 => h[i - 1] = k[i - 1]
        BY <3>1, Zenon
      <3>3. CASE i = m
        BY <2>2, <3>2, <3>3, Zenon DEF v
      <3>4. CASE i # m
        BY <2>1, <2>2, <3>2, <3>4, Zenon DEF Sorting
      <3> QED
        BY <3>3, <3>4, Zenon
    <2> HIDE DEF v
    <2>4. Sorting(endpoints, m, h)
      BY <2>3, Zenon DEF Sorting
    <2> QED
      BY <2>2, <2>4, Zenon
  <1> HIDE DEF X
  <1>3. \A i \in 0 .. n : i \in X
    BY <1>1, <1>2, Climb, Zenon
  <1>4. n \in 0 .. n
    OBVIOUS
  <1> QED
    BY <1>3, <1>4, Zenon DEF X

\* The sort keeps every route and puts a best one first.
LEMMA SortFacts ==
  ASSUME NEW s \in Seq(Routes)
  PROVE  Orders(sort_by(s), Range(s)) /\ (s # << >> => sort_by(s) # << >>)
  <1>1. Len(s) \in Nat /\ DOMAIN s = 1 .. Len(s) /\ \A i \in 1 .. Len(s) : s[i] \in Routes
    OBVIOUS
  <1>2. PICK k : Sorting(s, Len(s), k) /\ sort_by(s) = k[Len(s)]
    <2>1. \E k : Sorting(s, Len(s), k)
      BY <1>1, SortingExists, Zenon
    <2> QED
      BY <2>1, Zenon DEF Sorting, sort_by
  <1> DEFINE first(i) == {s[j] : j \in 1 .. i}
             X == {i \in 0 .. Len(s) : Orders(k[i], first(i))}
  <1>3. 0 \in X
    <2>1. 0 \in 0 .. Len(s) /\ 1 .. 0 = {}
      BY <1>1
    <2>2. k[0] = << >> /\ first(0) = {}
      BY <1>2, <2>1, Zenon DEF Sorting
    <2>3. << >> \in Seq(Routes) /\ DOMAIN << >> = {}
      OBVIOUS
    <2>4. Range(<< >>) = {}
      BY <2>3, Zenon DEF Range
    <2>5. Orders(<< >>, {})
      BY <2>3, <2>4, Zenon DEF Orders, BestFirst
    <2> QED
      BY <2>1, <2>2, <2>5, Zenon
  <1>4. ASSUME NEW i \in 1 .. Len(s), i - 1 \in X PROVE i \in X
    <2>1. i \in 0 .. Len(s) /\ i # 0 /\ \A j : j \in 1 .. i <=> j \in 1 .. i - 1 \/ j = i
      BY <1>1
    <2>2. k[i] = insert(k[i - 1], s[i])
      BY <1>2, <2>1, Zenon DEF Sorting
    <2>3. Orders(k[i], first(i - 1) \cup {s[i]})
      BY <1>1, <1>4, <2>2, InsertFacts
    <2>4. first(i) = first(i - 1) \cup {s[i]}
      BY <2>1, Zenon
    <2> QED
      BY <2>1, <2>3, <2>4, Zenon
  <1> HIDE DEF X
  <1>5. Len(s) \in X
    <2>1. \A i \in 0 .. Len(s) : i \in X
      BY <1>1, <1>3, <1>4, Climb, Zenon
    <2>2. Len(s) \in 0 .. Len(s)
      BY <1>1
    <2> QED
      BY <2>1, <2>2, Zenon
  <1>6. first(Len(s)) = Range(s)
    BY <1>1, Zenon DEF Range
  <1>7. Orders(sort_by(s), Range(s))
    BY <1>2, <1>5, <1>6, Zenon DEF X
  <1>8. ASSUME s # << >>, sort_by(s) = << >> PROVE FALSE
    <2>1. 1 \in DOMAIN s /\ DOMAIN << >> = {}
      BY <1>8
    <2>2. s[1] \in Range(<< >>)
      BY <1>7, <1>8, <2>1, Zenon DEF Orders, Range
    <2> QED
      BY <2>1, <2>2, Zenon DEF Range
  <1> QED
    BY <1>7, <1>8, Zenon

\* The recursive function of dedup, up to n.
Deduping(s, n, k) ==
  k = [i \in 0 .. n |-> IF i = 0 THEN << >>
                        ELSE IF i > 1 /\ s[i] = s[i - 1] THEN k[i - 1]
                        ELSE Append(k[i - 1], s[i])]

\* It exists.
LEMMA DedupingExists ==
  ASSUME NEW s, NEW n \in Nat
  PROVE  \E k : Deduping(s, n, k)
  <1> DEFINE X == {m \in 0 .. n : \E k : Deduping(s, m, k)}
  <1>1. 0 \in X
    <2>1. Deduping(s, 0, [i \in 0 .. 0 |-> << >>])
      BY DEF Deduping
    <2>2. 0 \in 0 .. n
      OBVIOUS
    <2> QED
      BY <2>1, <2>2, Zenon
  <1>2. ASSUME NEW m \in 1 .. n, m - 1 \in X PROVE m \in X
    <2>1. PICK k : Deduping(s, m - 1, k)
      BY <1>2, Zenon
    <2> DEFINE v == IF m > 1 /\ s[m] = s[m - 1] THEN k[m - 1] ELSE Append(k[m - 1], s[m])
               h == [i \in 0 .. m |-> IF i = m THEN v ELSE k[i]]
    <2>2. /\ \A i \in 0 .. m : i # m => i \in 0 .. m - 1
          /\ m # 0 /\ m \in 0 .. n
      OBVIOUS
    <2>3. ASSUME NEW i \in 0 .. m
          PROVE  h[i] = IF i = 0 THEN << >>
                        ELSE IF i > 1 /\ s[i] = s[i - 1] THEN h[i - 1]
                        ELSE Append(h[i - 1], s[i])
      <3>1. i # 0 => i - 1 \in 0 .. m /\ i - 1 # m
        OBVIOUS
      <3> HIDE DEF v
      <3>2. i # 0 => h[i - 1] = k[i - 1]
        BY <3>1, Zenon
      <3>3. CASE i = m
        BY <2>2, <3>2, <3>3, Zenon DEF v
      <3>4. CASE i # m
        BY <2>1, <2>2, <3>2, <3>4, Zenon DEF Deduping
      <3> QED
        BY <3>3, <3>4, Zenon
    <2> HIDE DEF v
    <2>4. Deduping(s, m, h)
      BY <2>3, Zenon DEF Deduping
    <2> QED
      BY <2>2, <2>4, Zenon
  <1> HIDE DEF X
  <1>3. \A i \in 0 .. n : i \in X
    BY <1>1, <1>2, Climb, Zenon
  <1>4. n \in 0 .. n
    OBVIOUS
  <1> QED
    BY <1>3, <1>4, Zenon DEF X

\* Appending a route adds it.
LEMMA AppendFacts ==
  ASSUME NEW S, NEW s \in Seq(S), NEW x \in S
  PROVE  /\ Append(s, x) \in Seq(S) /\ Range(Append(s, x)) = Range(s) \cup {x}
         /\ Len(s) \in Nat /\ Len(Append(s, x)) = Len(s) + 1 /\ Append(s, x)[Len(s) + 1] = x
         /\ \A i \in 1 .. Len(s) : Append(s, x)[i] = s[i]
         /\ \A i : i \in 1 .. Len(s) + 1 <=> i \in 1 .. Len(s) \/ i = Len(s) + 1
         /\ DOMAIN s = 1 .. Len(s) /\ DOMAIN Append(s, x) = 1 .. Len(s) + 1
         /\ Append(s, x) # << >> /\ (s # << >> => Append(s, x)[1] = s[1]) /\ (s = << >> => Append(s, x)[1] = x)
  <1> DEFINE a == Append(s, x)
  <1>1. /\ Len(s) \in Nat /\ DOMAIN s = 1 .. Len(s) /\ DOMAIN a = 1 .. Len(s) + 1 /\ a \in Seq(S)
        /\ Len(a) = Len(s) + 1 /\ a[Len(s) + 1] = x
        /\ \A i \in 1 .. Len(s) : a[i] = s[i]
        /\ \A i : i \in 1 .. Len(s) + 1 <=> i \in 1 .. Len(s) \/ i = Len(s) + 1
    OBVIOUS
  <1>2. a # << >> /\ (s # << >> => 1 \in 1 .. Len(s)) /\ (s = << >> => a[1] = x)
    <2>1. a # << >>
      <3> HIDE DEF a
      <3>1. Len(a) # 0
        BY <1>1
      <3> QED
        BY <3>1
    <2>2. s # << >> => 1 \in 1 .. Len(s)
      OBVIOUS
    <2>3. s = << >> => Len(s) + 1 = 1
      OBVIOUS
    <2> QED
      BY <1>1, <2>1, <2>2, <2>3, Zenon
  <1> HIDE DEF a
  <1>3. Range(a) = Range(s) \cup {x}
    <2>1. \A y \in Range(a) : y \in Range(s) \cup {x}
      BY <1>1, Zenon DEF Range
    <2>2. \A y \in Range(s) : y \in Range(a)
      BY <1>1, Zenon DEF Range
    <2>3. x \in Range(a)
      BY <1>1, Zenon DEF Range
    <2> QED
      BY <2>1, <2>2, <2>3, Zenon
  <1> QED
    BY <1>1, <1>2, <1>3, Zenon DEF a

\* dedup keeps every route, and the first where it is.
LEMMA DedupFacts ==
  ASSUME NEW R, NEW s, Orders(s, R), s # << >>
  PROVE  Orders(dedup(s), R) /\ dedup(s) # << >>
  <1>1. /\ s \in Seq(Routes) /\ Range(s) = R /\ Len(s) \in Nat \ {0} /\ DOMAIN s = 1 .. Len(s)
        /\ \A i \in 1 .. Len(s) : s[i] \in Routes
    BY DEF Orders
  <1>2. PICK k : Deduping(s, Len(s), k) /\ dedup(s) = k[Len(s)]
    <2>1. \E k : Deduping(s, Len(s), k)
      BY <1>1, DedupingExists, Zenon
    <2> QED
      BY <2>1, Zenon DEF Deduping, dedup
  <1> DEFINE first(i) == {s[j] : j \in 1 .. i}
             Good(i) == /\ k[i] \in Seq(Routes) /\ Range(k[i]) = first(i)
                        /\ i = 0 => k[i] = << >>
                        /\ i # 0 => k[i] # << >> /\ k[i][1] = s[1]
             X == {i \in 0 .. Len(s) : Good(i)}
  <1>3. 0 \in X
    <2>1. 0 \in 0 .. Len(s) /\ 1 .. 0 = {}
      BY <1>1
    <2>2. k[0] = << >> /\ first(0) = {}
      BY <1>2, <2>1, Zenon DEF Deduping
    <2>3. << >> \in Seq(Routes) /\ DOMAIN << >> = {}
      OBVIOUS
    <2>4. Range(<< >>) = {}
      BY <2>3, Zenon DEF Range
    <2> QED
      BY <2>1, <2>2, <2>3, <2>4, Zenon
  <1>4. ASSUME NEW i \in 1 .. Len(s), i - 1 \in X PROVE i \in X
    <2>1. /\ i \in 0 .. Len(s) /\ i # 0 /\ \A j : j \in 1 .. i <=> j \in 1 .. i - 1 \/ j = i
          /\ i > 1 => i - 1 # 0 /\ i - 1 \in 1 .. i - 1
          /\ ~(i > 1) => i = 1
          /\ i = 1 => i - 1 = 0
      BY <1>1
    <2>2. first(i) = first(i - 1) \cup {s[i]}
      BY <2>1, Zenon
    <2>3. k[i] = IF i > 1 /\ s[i] = s[i - 1] THEN k[i - 1] ELSE Append(k[i - 1], s[i])
      BY <1>2, <2>1, Zenon DEF Deduping
    <2>4. Good(i - 1) /\ s[i] \in Routes
      BY <1>1, <1>4, Zenon
    <2>5. CASE i > 1 /\ s[i] = s[i - 1]
      <3>1. k[i] = k[i - 1] /\ s[i] \in first(i - 1)
        BY <2>1, <2>3, <2>5, Zenon
      <3>2. first(i) = first(i - 1)
        BY <2>2, <3>1, Zenon
      <3> QED
        BY <2>1, <2>4, <2>5, <3>1, <3>2, Zenon
    <2>6. CASE ~(i > 1 /\ s[i] = s[i - 1])
      <3>1. k[i] = Append(k[i - 1], s[i])
        BY <2>3, <2>6, Zenon
      <3> DEFINE h == k[i - 1]
                 x == s[i]
      <3>2. h \in Seq(Routes) /\ x \in Routes
        BY <2>4, Zenon
      <3> HIDE DEF h, x
      <3>3. /\ Append(h, x) \in Seq(Routes) /\ Range(Append(h, x)) = Range(h) \cup {x}
            /\ Append(h, x) # << >> /\ (h # << >> => Append(h, x)[1] = h[1]) /\ (h = << >> => Append(h, x)[1] = x)
        BY <3>2, AppendFacts
      <3>4. Range(k[i]) = first(i) /\ k[i] \in Seq(Routes) /\ k[i] # << >>
        BY <2>2, <2>4, <3>1, <3>3, Zenon DEF h, x
      <3>5. k[i][1] = s[1]
        <4>1. CASE i > 1
          BY <2>1, <2>4, <3>1, <3>3, <4>1, Zenon DEF h, x
        <4>2. CASE i = 1
          <5>1. h = << >>
            BY <2>1, <2>4, <4>2, Zenon DEF h
          <5> QED
            BY <3>1, <3>3, <4>2, <5>1, Zenon DEF h, x
        <4> QED
          BY <2>1, <4>1, <4>2, Zenon
      <3> QED
        BY <2>1, <3>4, <3>5, Zenon
    <2> QED
      BY <2>5, <2>6, Zenon
  <1> HIDE DEF X
  <1>5. Good(Len(s)) /\ Len(s) # 0
    <2>1. \A i \in 0 .. Len(s) : i \in X
      BY <1>1, <1>3, <1>4, Climb, Zenon
    <2>2. Len(s) \in 0 .. Len(s) /\ Len(s) # 0
      BY <1>1
    <2> QED
      BY <2>1, <2>2, Zenon DEF X
  <1>6. first(Len(s)) = R
    BY <1>1, Zenon DEF Range
  <1> DEFINE d == dedup(s)
  <1>7. d \in Seq(Routes) /\ Range(d) = R /\ d # << >> /\ d[1] = s[1]
    BY <1>2, <1>5, <1>6, Zenon
  <1> HIDE DEF d
  <1>8. BestFirst(d)
    <2>1. \A x \in R : endpoint_priority(s[1]) <= endpoint_priority(x)
      BY <1>1, Zenon DEF Orders, BestFirst, Range
    <2> QED
      BY <1>7, <2>1, Zenon DEF BestFirst, Range
  <1> QED
    BY <1>7, <1>8, Zenon DEF Orders, d

\* What a device is listed with: all the routes it was given, a best one first.
LEMMA SortAndDeduplicateFacts ==
  ASSUME NEW s \in Seq(Routes), s # << >>
  PROVE  Orders(sort_and_deduplicate_endpoints(s), Range(s)) /\ sort_and_deduplicate_endpoints(s) # << >>
  <1>1. Orders(sort_by(s), Range(s)) /\ sort_by(s) # << >>
    BY SortFacts, Zenon
  <1> QED
    BY <1>1, DedupFacts, Zenon DEF sort_and_deduplicate_endpoints

\* The routes of a service are finitely many.
LEMMA RoutesFinite ==
  ASSUME NEW service \in Services
  PROVE  IsFiniteSet(usable_endpoints(service))
  <1> DEFINE P == {append_endpoints(a, service.port) : a \in service.addresses}
  <1>1. IsFiniteSet(service.addresses)
    BY DiscoveryAssumption, Zenon
  <1>2. IsFiniteSet(P)
    <2> DEFINE f == [a \in service.addresses |-> append_endpoints(a, service.port)]
    <2>1. f \in [service.addresses -> P] /\ \A T \in P : \E a \in service.addresses : f[a] = T
      BY Zenon
    <2>2. f \in Surjection(service.addresses, P)
      BY <2>1, Zenon DEF Surjection
    <2> QED
      BY <1>1, <2>2, FS_Surjection, Zenon
  <1>3. ASSUME NEW a \in service.addresses PROVE IsFiniteSet(append_endpoints(a, service.port))
    <2> DEFINE over(i) == [family |-> a.family, ip |-> a.ip, port |-> service.port, interface |-> i]
    <2>1. IsFiniteSet(a.interfaces) /\ IsFiniteSet({0}) /\ IsFiniteSet({})
      BY DiscoveryAssumption, FS_EmptySet, FS_Singleton, Zenon
    <2> DEFINE I == IF a.interfaces = {} THEN {0} ELSE a.interfaces
               scope == CHOOSE i \in a.interfaces : TRUE
    <2>2. IsFiniteSet(I)
      BY <2>1, Zenon
    <2> HIDE DEF I
    <2>3. IsFiniteSet({over(i) : i \in I})
      <3> DEFINE f == [i \in I |-> over(i)]
                 T == {over(i) : i \in I}
      <3>1. f \in [I -> T] /\ \A x \in T : \E i \in I : f[i] = x
        BY Zenon
      <3>2. f \in Surjection(I, T)
        BY <3>1, Zenon DEF Surjection
      <3> QED
        BY <2>2, <3>2, FS_Surjection, Zenon
    <2>4. IsFiniteSet({over(scope)})
      BY FS_Singleton, Zenon
    <2>5. append_endpoints(a, service.port) \in {{}, {over(i) : i \in I}, {over(scope)}}
      BY Zenon DEF append_endpoints, I
    <2> QED
      BY <2>1, <2>3, <2>4, <2>5, Zenon
  <1>4. \A T \in P : IsFiniteSet(T)
    BY <1>3, Zenon
  <1>5. IsFiniteSet(UNION P)
    BY <1>2, <1>4, FS_UNION, Zenon
  <1> QED
    BY <1>5, Zenon DEF usable_endpoints

\* A device made from a service has the routes of the service.
LEMMA DeviceFacts ==
  ASSUME NEW service \in Services, usable(service)
  PROVE  LET device == device_from_service(service)
         IN  /\ device.instance = service.instance
             /\ Orders(device.endpoints, usable_endpoints(service)) /\ device.endpoints # << >>
  <1> DEFINE E == usable_endpoints(service)
             n == Cardinality(E)
             s == CHOOSE x \in [1 .. n -> E] : Range(x) = E
  <1>1. IsFiniteSet(E) /\ E # {} /\ E \subseteq Routes
    BY RoutesFinite, Zenon DEF usable, Routes
  <1> HIDE DEF E
  <1>2. n \in Nat /\ ExistsBijection(1 .. n, E)
    BY <1>1, FS_CardinalityType, Zenon
  <1> HIDE DEF n
  <1>3. \E x \in [1 .. n -> E] : Range(x) = E
    <2>1. PICK x \in Bijection(1 .. n, E) : TRUE
      BY <1>2, Zenon DEF ExistsBijection
    <2>2. x \in [1 .. n -> E] /\ \A e \in E : \E i \in 1 .. n : x[i] = e
      BY <2>1, Zenon DEF Bijection, Surjection, Injection
    <2>3. Range(x) = E
      BY <2>2, Zenon DEF Range
    <2> QED
      BY <2>2, <2>3, Zenon
  <1>4. s \in [1 .. n -> E] /\ Range(s) = E
    BY <1>3, Zenon
  <1>5. device_from_service(service) = [instance |-> service.instance, endpoints |-> sort_and_deduplicate_endpoints(s)]
    BY Zenon DEF device_from_service, E, n
  <1> HIDE DEF s
  <1>6. s \in Seq(Routes)
    <2>1. s \in [1 .. n -> Routes]
      BY <1>1, <1>4
    <2> QED
      BY <1>2, <2>1
  <1>7. s # << >>
    <2>1. DOMAIN << >> = {}
      OBVIOUS
    <2> QED
      BY <1>1, <1>4, <2>1, Zenon DEF Range
  <1>8. Orders(sort_and_deduplicate_endpoints(s), E) /\ sort_and_deduplicate_endpoints(s) # << >>
    BY <1>4, <1>6, <1>7, SortAndDeduplicateFacts, Zenon
  <1>9. /\ device_from_service(service).instance = service.instance
        /\ device_from_service(service).endpoints = sort_and_deduplicate_endpoints(s)
    BY <1>5
  <1> QED
    BY <1>8, <1>9, Zenon DEF E

\* merge_device joins the routes and takes the instance of the update.
LEMMA MergeFacts ==
  ASSUME NEW current, NEW update, NEW Q, NEW R, Orders(current.endpoints, Q), Orders(update.endpoints, R),
         current.endpoints # << >>, update = [instance |-> update.instance, endpoints |-> update.endpoints]
  PROVE  LET device == merge_device(current, update)
         IN  /\ device.instance = update.instance
             /\ Orders(device.endpoints, Q \cup R) /\ device.endpoints # << >>
  <1> DEFINE c == current.endpoints
             u == update.endpoints
             t == c \o u
  <1>1. c \in Seq(Routes) /\ u \in Seq(Routes) /\ Range(c) = Q /\ Range(u) = R /\ c # << >>
    BY Zenon DEF Orders
  <1>2. /\ merge_device(current, update).instance = update.instance
        /\ merge_device(current, update).endpoints = sort_and_deduplicate_endpoints(t)
    BY DEF merge_device
  <1> HIDE DEF c, u
  <1>3. /\ t \in Seq(Routes) /\ t # << >> /\ DOMAIN t = 1 .. Len(c) + Len(u)
        /\ DOMAIN c = 1 .. Len(c) /\ DOMAIN u = 1 .. Len(u) /\ Len(c) \in Nat /\ Len(u) \in Nat
        /\ \A i \in 1 .. Len(c) : t[i] = c[i]
        /\ \A i \in 1 .. Len(u) : t[Len(c) + i] = u[i]
    BY <1>1
  <1>4. /\ \A i \in 1 .. Len(c) : i \in 1 .. Len(c) + Len(u)
        /\ \A i \in 1 .. Len(u) : Len(c) + i \in 1 .. Len(c) + Len(u)
        /\ \A i \in 1 .. Len(c) + Len(u) : i \in 1 .. Len(c) \/ (i - Len(c) \in 1 .. Len(u) /\ Len(c) + (i - Len(c)) = i)
    BY <1>3
  <1>5. Range(t) = Q \cup R
    <2> HIDE DEF t
    <2>1. \A x \in Range(t) : x \in Q \cup R
      <3> TAKE x \in Range(t)
      <3>1. PICK i \in 1 .. Len(c) + Len(u) : x = t[i]
        BY <1>3, Zenon DEF Range
      <3>2. CASE i \in 1 .. Len(c)
        BY <1>1, <1>3, <3>1, <3>2, Zenon DEF Range
      <3>3. CASE i \notin 1 .. Len(c)
        <4>1. i - Len(c) \in 1 .. Len(u) /\ x = u[i - Len(c)]
          BY <1>3, <1>4, <3>1, <3>3, Zenon
        <4> QED
          BY <1>1, <1>3, <4>1, Zenon DEF Range
      <3> QED
        BY <3>2, <3>3, Zenon
    <2>2. \A x \in Q : x \in Range(t)
      BY <1>1, <1>3, <1>4, Zenon DEF Range
    <2>3. \A x \in R : x \in Range(t)
      BY <1>1, <1>3, <1>4 DEF Range
    <2> QED
      BY <2>1, <2>2, <2>3, Zenon
  <1> HIDE DEF t
  <1>6. Orders(sort_and_deduplicate_endpoints(t), Q \cup R) /\ sort_and_deduplicate_endpoints(t) # << >>
    BY <1>3, <1>5, SortAndDeduplicateFacts, Zenon
  <1> QED
    BY <1>2, <1>6, Zenon
-----------------------------------------------------------------------------
(* What was announced.  The operators of Discovery, of any history a.         *)
Ids == {service.id : service \in Services}
Removed(instance) == [removed |-> TRUE, instance |-> instance]
Events == {Resolved(service) : service \in Services} \cup {Removed(service.instance) : service \in Services}

ResolvedIn(a, id) ==
  {k \in DOMAIN a : ~a[k].removed /\ usable(a[k].service) /\ a[k].service.id = id}

Latest(a, id, r) == a[Max({i \in ResolvedIn(a, id) : i < r})]

HeldIn(a, id, j, k) ==
  \A r \in j .. k : a[r].removed => a[r].instance # Latest(a, id, r).instance

\* The announcements a listed device has its routes from.
Since(a, id) == {k \in ResolvedIn(a, id) : HeldIn(a, id, k, Len(a))}

\* An announcement is one or the other, and says what it says.
LEMMA EventFacts ==
  ASSUME NEW e \in Events
  PROVE  /\ e.removed \in BOOLEAN
         /\ ~e.removed => e.service \in Services /\ e.instance = e.service.instance
  <1>1. CASE \E service \in Services : e = Resolved(service)
    BY <1>1 DEF Resolved
  <1>2. CASE \E service \in Services : e = Removed(service.instance)
    BY <1>2 DEF Removed
  <1> QED
    BY <1>1, <1>2, Zenon DEF Events

\* A further announcement leaves what was said of the earlier ones.
LEMMA HistoryStep ==
  ASSUME NEW a \in Seq(Events), NEW e \in Events, NEW id
  PROVE  LET b   == Append(a, e)
             new == {k \in {Len(a) + 1} : ~e.removed /\ usable(e.service) /\ e.service.id = id}
         IN  /\ ResolvedIn(b, id) = ResolvedIn(a, id) \cup new
             /\ ~e.removed => Since(b, id) = Since(a, id) \cup new
             /\ e.removed /\ ResolvedIn(a, id) # {} =>
                  Since(b, id) = IF e.instance = a[Max(ResolvedIn(a, id))].instance THEN {} ELSE Since(a, id)
  <1> DEFINE b   == Append(a, e)
             n   == Len(a)
             new == {k \in {n + 1} : ~e.removed /\ usable(e.service) /\ e.service.id = id}
             A   == ResolvedIn(a, id)
             B   == ResolvedIn(b, id)
  <1>1. /\ n \in Nat /\ DOMAIN a = 1 .. n /\ DOMAIN b = 1 .. n + 1 /\ Len(b) = n + 1 /\ b[n + 1] = e
        /\ \A i \in 1 .. n : b[i] = a[i]
        /\ \A i : i \in 1 .. n + 1 <=> i \in 1 .. n \/ i = n + 1
    BY AppendFacts
  <1> HIDE DEF b, n
  <1>2. A \subseteq 1 .. n
    BY <1>1, Zenon DEF ResolvedIn
  <1>3. B = A \cup new
    <2>1. \A k \in B : k \in A \cup new
      BY <1>1, Zenon DEF ResolvedIn
    <2>2. \A k \in A : k \in B
      BY <1>1, Zenon DEF ResolvedIn
    <2>3. \A k \in new : k \in B
      BY <1>1, Zenon DEF ResolvedIn
    <2> QED
      BY <2>1, <2>2, <2>3, Zenon
  <1> HIDE DEF A, B
  <1>4. ASSUME NEW r \in 1 .. n + 1 PROVE {i \in B : i < r} = {i \in A : i < r}
    <2>1. \A i \in new : ~(i < r)
      BY <1>1
    <2> HIDE DEF new
    <2> QED
      BY <1>3, <2>1, Zenon
  <1>5. ASSUME NEW r \in 1 .. n + 1, {i \in A : i < r} # {} PROVE Latest(b, id, r) = Latest(a, id, r)
    <2> DEFINE T == {i \in A : i < r}
    <2>1. T \in SUBSET (1 .. n) /\ T # {}
      BY <1>2, <1>5, Zenon
    <2>2. Max(T) \in 1 .. n
      <3> HIDE DEF T
      <3> QED
        BY <1>1, <2>1, MaxFacts, Zenon
    <2>3. Latest(a, id, r) = a[Max(T)] /\ Latest(b, id, r) = b[Max(T)]
      BY <1>4, Zenon DEF Latest, A, B
    <2> QED
      BY <1>1, <2>2, <2>3, Zenon
  <1>6. ASSUME NEW k \in A
        PROVE  HeldIn(b, id, k, n + 1) <=> /\ HeldIn(a, id, k, n)
                                           /\ e.removed => e.instance # Latest(a, id, n + 1).instance
    <2>1. /\ k \in 1 .. n /\ n + 1 \in k .. n + 1 /\ k < n + 1 /\ n + 1 \in 1 .. n + 1
          /\ \A r : r \in k .. n + 1 <=> r \in k .. n \/ r = n + 1
          /\ \A r \in k .. n : r \in 1 .. n /\ r \in 1 .. n + 1 /\ (r # k => k < r)
      <3>1. k \in 1 .. n
        BY <1>2, Zenon
      <3> QED
        BY <1>1, <3>1
    <2>2. ~a[k].removed /\ ~b[k].removed
      BY <1>1, <2>1, Zenon DEF A, ResolvedIn
    <2>3. \A r \in k .. n : r # k => Latest(b, id, r) = Latest(a, id, r) /\ b[r] = a[r]
      BY <1>1, <1>5, <2>1, Zenon
    <2>4. Latest(b, id, n + 1) = Latest(a, id, n + 1)
      BY <1>5, <2>1, Zenon
    <2>5. HeldIn(b, id, k, n + 1) <=>
            /\ \A r \in k .. n : b[r].removed => b[r].instance # Latest(b, id, r).instance
            /\ e.removed => e.instance # Latest(a, id, n + 1).instance
      BY <1>1, <2>1, <2>4, Zenon DEF HeldIn
    <2>6. (\A r \in k .. n : b[r].removed => b[r].instance # Latest(b, id, r).instance) <=> HeldIn(a, id, k, n)
      BY <2>2, <2>3, Zenon DEF HeldIn
    <2> QED
      BY <2>5, <2>6, Zenon
  <1>7. Since(a, id) = {k \in A : HeldIn(a, id, k, n)} /\ Since(b, id) = {k \in B : HeldIn(b, id, k, n + 1)}
    BY <1>1, Zenon DEF Since, A, B, n
  <1>8. ASSUME ~e.removed PROVE Since(b, id) = Since(a, id) \cup new
    <2>1. ASSUME NEW k \in new PROVE HeldIn(b, id, k, n + 1)
      <3>1. k = n + 1
        BY <2>1, Zenon
      <3>2. \A r \in k .. n + 1 : r = n + 1
        BY <1>1, <3>1
      <3> QED
        BY <1>1, <1>8, <3>2, Zenon DEF HeldIn
    <2> HIDE DEF new
    <2> QED
      BY <1>3, <1>6, <1>7, <1>8, <2>1, Zenon
  <1>9. ASSUME e.removed, A # {}
        PROVE  Since(b, id) = IF e.instance = a[Max(A)].instance THEN {} ELSE Since(a, id)
    <2>1. new = {}
      BY <1>9, Zenon
    <2>2. ASSUME NEW i \in A PROVE i < n + 1
      <3>1. i \in 1 .. n
        BY <1>2, Zenon
      <3> QED
        BY <1>1, <3>1
    <2>3. {i \in A : i < n + 1} = A
      BY <2>2, Zenon
    <2>4. Latest(a, id, n + 1) = a[Max(A)]
      BY <2>3, Zenon DEF Latest, A
    <2> HIDE DEF new
    <2>5. B = A
      BY <1>3, <2>1, Zenon
    <2> QED
      BY <1>6, <1>7, <1>9, <2>4, <2>5, Zenon
  <1> QED
    BY <1>3, <1>8, <1>9, Zenon DEF A, B, b, n
-----------------------------------------------------------------------------
(* Devices.                                                                   *)

\* The routes announced for a device since it was listed.
Given(a, id) == UNION {usable_endpoints(a[k].service) : k \in Since(a, id)}

\* A device as it should be listed after the announcements a.
ListedAs(device, a, id) ==
  /\ device.instance = a[Max(ResolvedIn(a, id))].instance
  /\ Orders(device.endpoints, Given(a, id)) /\ device.endpoints # << >>

\* The devices found agree with what was announced.
Agree(found, a) ==
  /\ a \in Seq(Events)
  /\ \A id \in DOMAIN found : id \in Ids /\ ListedAs(found[id], a, id)
  /\ \A id \in Ids : id \in DOMAIN found <=> Since(a, id) # {}

DiscoveryInv == Agree(devices, announced)

\* The places of a device are places of the history, and it has a latest.
LEMMA PlaceFacts ==
  ASSUME NEW a \in Seq(Events), NEW id
  PROVE  /\ Len(a) \in Nat /\ ResolvedIn(a, id) \subseteq 1 .. Len(a) /\ Since(a, id) \subseteq ResolvedIn(a, id)
         /\ ResolvedIn(a, id) # {} => /\ Max(ResolvedIn(a, id)) \in ResolvedIn(a, id)
                                      /\ \A k \in ResolvedIn(a, id) : k <= Max(ResolvedIn(a, id))
  <1>1. Len(a) \in Nat /\ DOMAIN a = 1 .. Len(a)
    OBVIOUS
  <1>2. ResolvedIn(a, id) \in SUBSET (1 .. Len(a)) /\ Since(a, id) \subseteq ResolvedIn(a, id)
    BY <1>1, Zenon DEF ResolvedIn, Since
  <1> QED
    BY <1>1, <1>2, MaxFacts, Zenon

\* A device that an announcement does not concern stays as it should be.
LEMMA ListedKept ==
  ASSUME NEW a \in Seq(Events), NEW e \in Events, NEW id, NEW device, ListedAs(device, a, id), Since(a, id) # {},
         ResolvedIn(Append(a, e), id) = ResolvedIn(a, id), Since(Append(a, e), id) = Since(a, id)
  PROVE  ListedAs(device, Append(a, e), id)
  <1> DEFINE b == Append(a, e)
  <1>1. \A i \in 1 .. Len(a) : b[i] = a[i]
    BY AppendFacts
  <1> HIDE DEF b
  <1>2. \A k \in ResolvedIn(a, id) : b[k] = a[k]
    BY <1>1, PlaceFacts, Zenon
  <1>3. Max(ResolvedIn(a, id)) \in ResolvedIn(a, id) /\ \A k \in Since(a, id) : k \in ResolvedIn(a, id)
    BY PlaceFacts, Zenon
  <1>4. b[Max(ResolvedIn(b, id))].instance = a[Max(ResolvedIn(a, id))].instance
    BY <1>2, <1>3, Zenon DEF b
  <1>5. Given(b, id) = Given(a, id)
    <2>1. Since(b, id) = Since(a, id) /\ \A k \in Since(a, id) : b[k] = a[k]
      BY <1>2, <1>3, Zenon DEF b
    <2>2. \A x \in Given(b, id) : x \in Given(a, id)
      BY <2>1, Zenon DEF Given
    <2>3. \A x \in Given(a, id) : x \in Given(b, id)
      BY <2>1, Zenon DEF Given
    <2> QED
      BY <2>2, <2>3, Zenon
  <1> QED
    BY <1>4, <1>5, Zenon DEF ListedAs, b

\* A service that is resolved gives its device its routes.
LEMMA ListedAnew ==
  ASSUME NEW a \in Seq(Events), NEW service \in Services, usable(service),
         NEW device, device.instance = service.instance, device.endpoints # << >>,
         Orders(device.endpoints, Given(a, service.id) \cup usable_endpoints(service))
  PROVE  LET b == Append(a, Resolved(service))
         IN  ListedAs(device, b, service.id) /\ Since(b, service.id) # {}
  <1> DEFINE e == Resolved(service)
             b == Append(a, e)
             n == Len(a)
             id == service.id
  <1>1. e \in Events /\ ~e.removed /\ e.service = service /\ e.instance = service.instance
    <2>1. e \in Events
      BY Zenon DEF Events
    <2> QED
      BY <2>1 DEF Resolved
  <1> HIDE DEF e
  <1>2. {k \in {n + 1} : ~e.removed /\ usable(e.service) /\ e.service.id = id} = {n + 1}
    BY <1>1, Zenon
  <1>3. ResolvedIn(b, id) = ResolvedIn(a, id) \cup {n + 1} /\ Since(b, id) = Since(a, id) \cup {n + 1}
    BY <1>1, <1>2, HistoryStep
  <1>4. /\ n \in Nat /\ b \in Seq(Events) /\ Len(b) = n + 1 /\ b[n + 1] = e /\ \A i \in 1 .. n : b[i] = a[i]
    BY <1>1, AppendFacts
  <1> HIDE DEF b, n
  <1>5. Max(ResolvedIn(b, id)) = n + 1
    <2>1. /\ ResolvedIn(b, id) \subseteq 1 .. n + 1 /\ n + 1 \in ResolvedIn(b, id)
          /\ Max(ResolvedIn(b, id)) \in ResolvedIn(b, id) /\ n + 1 <= Max(ResolvedIn(b, id))
      BY <1>3, <1>4, PlaceFacts, Zenon
    <2>2. Max(ResolvedIn(b, id)) \in 1 .. n + 1 /\ n + 1 <= Max(ResolvedIn(b, id))
      BY <2>1, Zenon
    <2> QED
      BY <1>4, <2>2
  <1>6. \A k \in Since(a, id) : b[k] = a[k]
    BY <1>4, PlaceFacts, Zenon DEF n
  <1>7. Given(b, id) = Given(a, id) \cup usable_endpoints(service)
    <2>1. \A x \in Given(b, id) : x \in Given(a, id) \cup usable_endpoints(service)
      <3> TAKE x \in Given(b, id)
      <3>1. PICK k \in Since(b, id) : x \in usable_endpoints(b[k].service)
        BY Zenon DEF Given
      <3>2. CASE k \in Since(a, id)
        BY <1>6, <3>1, <3>2, Zenon DEF Given
      <3>3. CASE k = n + 1
        BY <1>1, <1>4, <3>1, <3>3, Zenon
      <3> QED
        BY <1>3, <3>1, <3>2, <3>3, Zenon
    <2>2. \A x \in Given(a, id) : x \in Given(b, id)
      BY <1>3, <1>6, Zenon DEF Given
    <2>3. \A x \in usable_endpoints(service) : x \in Given(b, id)
      <3>1. n + 1 \in Since(b, id) /\ b[n + 1].service = service
        BY <1>1, <1>3, <1>4, Zenon
      <3> QED
        BY <3>1, Zenon DEF Given
    <2> QED
      BY <2>1, <2>2, <2>3, Zenon
  <1>8. ListedAs(device, b, id)
    BY <1>1, <1>4, <1>5, <1>7, Zenon DEF ListedAs
  <1>9. Since(b, id) # {}
    BY <1>3, Zenon
  <1> QED
    BY <1>8, <1>9, Zenon DEF b, e

\* ServiceResolved: the device of the service is listed with its routes added, the
\* others stay.
LEMMA ResolvedStep ==
  ASSUME DiscoveryInv, NEW service \in Services, ServiceResolved(service)
  PROVE  DiscoveryInv'
  <1> DEFINE e == Resolved(service)
  <1>1. PICK a \in Seq(Events) : a = announced
    BY Zenon DEF DiscoveryInv, Agree
  <1>2. PICK found : found = devices
    OBVIOUS
  <1>3. PICK b : b = Append(a, e) /\ announced' = b
    BY <1>1, Zenon DEF ServiceResolved, Announce
  <1>4. /\ \A id \in DOMAIN found : id \in Ids /\ ListedAs(found[id], a, id)
        /\ \A id \in Ids : id \in DOMAIN found <=> Since(a, id) # {}
    BY <1>1, <1>2, Zenon DEF DiscoveryInv, Agree
  <1>5. e \in Events /\ ~e.removed /\ e.service = service
    <2>1. e \in Events
      BY Zenon DEF Events
    <2> QED
      BY <2>1 DEF Resolved
  <1>6. b \in Seq(Events)
    <2> HIDE DEF e
    <2> QED
      BY <1>3, <1>5, AppendFacts, Zenon
  <1>7. ASSUME NEW id, ~(usable(service) /\ service.id = id)
        PROVE  ResolvedIn(b, id) = ResolvedIn(a, id) /\ Since(b, id) = Since(a, id)
    <2> HIDE DEF e
    <2> DEFINE new == {k \in {Len(a) + 1} : ~e.removed /\ usable(e.service) /\ e.service.id = id}
    <2>1. new = {}
      BY <1>5, <1>7, Zenon
    <2>2. ResolvedIn(b, id) = ResolvedIn(a, id) \cup new /\ Since(b, id) = Since(a, id) \cup new
      BY <1>3, <1>5, HistoryStep
    <2> QED
      BY <2>1, <2>2, Zenon
  <1>8. ASSUME NEW id \in DOMAIN found, ~(usable(service) /\ service.id = id)
        PROVE  ListedAs(found[id], b, id)
    <2> HIDE DEF e
    <2> QED
      BY <1>3, <1>4, <1>5, <1>7, <1>8, ListedKept, Zenon
  <1>9. CASE ~usable(service)
    <2>1. devices' = found
      BY <1>2, <1>9, Zenon DEF ServiceResolved
    <2>2. Agree(found, b)
      BY <1>4, <1>6, <1>7, <1>8, <1>9, Zenon DEF Agree
    <2> QED
      BY <1>3, <2>1, <2>2, Zenon DEF DiscoveryInv
  <1>10. CASE usable(service)
    <2> DEFINE own == IF service.id \in DOMAIN found THEN merge_device(found[service.id], device_from_service(service))
                      ELSE device_from_service(service)
               next == [id \in DOMAIN found \cup {service.id} |-> IF id # service.id THEN found[id] ELSE own]
    <2>1. devices' = next
      BY <1>2, <1>10, Zenon DEF ServiceResolved
    <2>2. /\ own.instance = service.instance /\ own.endpoints # << >>
          /\ Orders(own.endpoints, Given(a, service.id) \cup usable_endpoints(service))
      <3> DEFINE update == device_from_service(service)
                 current == found[service.id]
      <3>1. /\ update.instance = service.instance
            /\ Orders(update.endpoints, usable_endpoints(service)) /\ update.endpoints # << >>
        BY <1>10, DeviceFacts, Zenon
      <3>2. update = [instance |-> update.instance, endpoints |-> update.endpoints]
        BY DEF device_from_service
      <3> HIDE DEF update, current
      <3>3. CASE service.id \in DOMAIN found
        <4>1. Orders(current.endpoints, Given(a, service.id)) /\ current.endpoints # << >>
          BY <1>4, <3>3, Zenon DEF ListedAs, current
        <4>2. LET device == merge_device(current, update)
              IN  /\ device.instance = update.instance
                  /\ Orders(device.endpoints, Given(a, service.id) \cup usable_endpoints(service))
                  /\ device.endpoints # << >>
          BY <3>1, <3>2, <4>1, MergeFacts, Zenon
        <4>3. own = merge_device(current, update)
          BY <3>3, Zenon DEF update, current
        <4> QED
          BY <3>1, <4>2, <4>3, Zenon
      <3>4. CASE service.id \notin DOMAIN found
        <4>1. own = update
          BY <3>4, Zenon DEF update
        <4>2. Since(a, service.id) = {}
          BY <1>4, <3>4, Zenon DEF Ids
        <4>3. Given(a, service.id) \cup usable_endpoints(service) = usable_endpoints(service)
          BY <4>2, Zenon DEF Given
        <4> QED
          BY <3>1, <4>1, <4>3, Zenon
      <3> QED
        BY <3>3, <3>4, Zenon
    <2> HIDE DEF own
    <2>3. ListedAs(own, b, service.id) /\ Since(b, service.id) # {}
      BY <1>3, <1>10, <2>2, ListedAnew, Zenon
    <2>4. /\ DOMAIN next = DOMAIN found \cup {service.id} /\ next[service.id] = own
          /\ \A id \in DOMAIN found : id # service.id => next[id] = found[id]
      BY Zenon
    <2> HIDE DEF next
    <2>5. ASSUME NEW id \in DOMAIN next PROVE id \in Ids /\ ListedAs(next[id], b, id)
      <3>1. CASE id = service.id
        BY <2>3, <2>4, <3>1, Zenon DEF Ids
      <3>2. CASE id # service.id
        BY <1>4, <1>8, <2>4, <2>5, <3>2, Zenon
      <3> QED
        BY <3>1, <3>2, Zenon
    <2>6. ASSUME NEW id \in Ids PROVE id \in DOMAIN next <=> Since(b, id) # {}
      <3>1. CASE id = service.id
        BY <2>3, <2>4, <3>1, Zenon
      <3>2. CASE id # service.id
        BY <1>4, <1>7, <2>4, <3>2, Zenon
      <3> QED
        BY <3>1, <3>2, Zenon
    <2>7. Agree(next, b)
      BY <1>6, <2>5, <2>6, Zenon DEF Agree
    <2> QED
      BY <1>3, <2>1, <2>7, Zenon DEF DiscoveryInv
  <1> QED
    BY <1>9, <1>10, Zenon

\* ServiceRemoved: the devices listed under the instance go, the others stay.
LEMMA RemovedStep ==
  ASSUME DiscoveryInv, NEW service \in Services, ServiceRemoved(service.instance)
  PROVE  DiscoveryInv'
  <1> DEFINE e == Removed(service.instance)
  <1>1. PICK a \in Seq(Events) : a = announced
    BY Zenon DEF DiscoveryInv, Agree
  <1>2. PICK found : found = devices
    OBVIOUS
  <1>3. PICK b : b = Append(a, e) /\ announced' = b
    BY <1>1, Zenon DEF ServiceRemoved, Announce, Removed
  <1>4. /\ \A id \in DOMAIN found : id \in Ids /\ ListedAs(found[id], a, id)
        /\ \A id \in Ids : id \in DOMAIN found <=> Since(a, id) # {}
    BY <1>1, <1>2, Zenon DEF DiscoveryInv, Agree
  <1>5. e \in Events /\ e.removed /\ e.instance = service.instance
    <2>1. e \in Events
      BY Zenon DEF Events
    <2> QED
      BY <2>1 DEF Removed
  <1> HIDE DEF e
  <1>6. b \in Seq(Events)
    BY <1>3, <1>5, AppendFacts, Zenon
  <1>7. ASSUME NEW id
        PROVE  /\ ResolvedIn(b, id) = ResolvedIn(a, id)
               /\ ResolvedIn(a, id) # {} =>
                    Since(b, id) = IF service.instance = a[Max(ResolvedIn(a, id))].instance THEN {} ELSE Since(a, id)
    <2> DEFINE new == {k \in {Len(a) + 1} : ~e.removed /\ usable(e.service) /\ e.service.id = id}
    <2>1. new = {}
      BY <1>5, Zenon
    <2>2. /\ ResolvedIn(b, id) = ResolvedIn(a, id) \cup new
          /\ ResolvedIn(a, id) # {} =>
               Since(b, id) = IF e.instance = a[Max(ResolvedIn(a, id))].instance THEN {} ELSE Since(a, id)
      BY <1>3, <1>5, HistoryStep
    <2> QED
      BY <1>5, <2>1, <2>2, Zenon
  <1> DEFINE stays == {id \in DOMAIN found : found[id].instance # service.instance}
             next  == [id \in stays |-> found[id]]
  <1>8. devices' = next
    BY <1>2, Zenon DEF ServiceRemoved, Restrict
  <1>9. DOMAIN next = stays /\ \A id \in stays : next[id] = found[id]
    BY Zenon
  <1> HIDE DEF next
  <1>10. ASSUME NEW id \in stays PROVE ListedAs(found[id], b, id) /\ Since(b, id) # {}
    <2>1. id \in Ids /\ ListedAs(found[id], a, id) /\ Since(a, id) # {} /\ found[id].instance # service.instance
      BY <1>4, Zenon
    <2>2. ResolvedIn(a, id) # {}
      BY <2>1, PlaceFacts, Zenon
    <2>3. Since(b, id) = Since(a, id)
      BY <1>7, <2>1, <2>2, Zenon DEF ListedAs
    <2> QED
      BY <1>3, <1>5, <1>7, <2>1, <2>3, ListedKept, Zenon
  <1>11. ASSUME NEW id \in Ids, id \notin stays PROVE Since(b, id) = {}
    <2>1. CASE id \in DOMAIN found
      <3>1. ListedAs(found[id], a, id) /\ Since(a, id) # {} /\ found[id].instance = service.instance
        BY <1>4, <1>11, <2>1, Zenon
      <3>2. ResolvedIn(a, id) # {}
        BY <3>1, PlaceFacts, Zenon
      <3> QED
        BY <1>7, <3>1, <3>2, Zenon DEF ListedAs
    <2>2. CASE id \notin DOMAIN found
      <3>1. Since(a, id) = {}
        BY <1>4, <2>2, Zenon
      <3>2. CASE ResolvedIn(a, id) # {}
        BY <1>7, <3>1, <3>2, Zenon
      <3>3. CASE ResolvedIn(a, id) = {}
        BY <1>6, <1>7, <3>3, PlaceFacts, Zenon
      <3> QED
        BY <3>2, <3>3, Zenon
    <2> QED
      BY <2>1, <2>2, Zenon
  <1>12. Agree(next, b)
    <2>1. \A id \in DOMAIN next : id \in Ids /\ ListedAs(next[id], b, id)
      BY <1>4, <1>9, <1>10, Zenon
    <2>2. \A id \in Ids : id \in DOMAIN next <=> Since(b, id) # {}
      BY <1>9, <1>10, <1>11, Zenon
    <2> QED
      BY <1>6, <2>1, <2>2, Zenon DEF Agree
  <1> QED
    BY <1>3, <1>8, <1>12, Zenon DEF DiscoveryInv

\* With nothing announced nothing is listed.
LEMMA NothingListed == Agree(<< >>, << >>)
  <1>1. << >> \in Seq(Events) /\ DOMAIN << >> = {}
    OBVIOUS
  <1>2. \A id : Since(<< >>, id) = {}
    BY <1>1, Zenon DEF Since, ResolvedIn
  <1> QED
    BY <1>1, <1>2, Zenon DEF Agree

\* Every step of the lookup keeps the devices as announced.
LEMMA LookupKeepsDevices == DiscoveryInv /\ [LookupNext]_lookup_vars => DiscoveryInv'
  <1> SUFFICES ASSUME DiscoveryInv, [LookupNext]_lookup_vars PROVE DiscoveryInv'
    OBVIOUS
  <1>1. CASE Discover(DiscoveryNext)
    <2>1. CASE \E service \in Services : ServiceResolved(service) \/ ServiceRemoved(service.instance)
      BY <2>1, ResolvedStep, RemovedStep, Zenon
    <2>2. CASE Deadline \/ ReceiveFails
      BY <2>2, Zenon DEF Deadline, ReceiveFails, DiscoveryInv
    <2> QED
      BY <1>1, <2>1, <2>2, Zenon DEF Discover, DiscoveryNext
  <1>2. CASE \E id \in DOMAIN devices : \E i \in DOMAIN devices[id].endpoints : Select(devices[id].endpoints[i])
    <2>1. devices' = << >> /\ announced' = << >>
      BY <1>2, Zenon DEF Select
    <2> QED
      BY <2>1, NothingListed, Zenon DEF DiscoveryInv
  <1>3. CASE UNCHANGED <<devices, announced>>
    BY <1>3, Zenon DEF DiscoveryInv
  <1>4. Link(LinkNext) \/ Disconnect \/ get_setup_device_info \/ Setup(QueryNext) \/ Tick => UNCHANGED <<devices, announced>>
    BY Zenon DEF Link, Disconnect, get_setup_device_info, Setup, Tick, discovery_vars
  <1>5. UNCHANGED lookup_vars => UNCHANGED <<devices, announced>>
    BY Zenon DEF lookup_vars, discovery_vars
  <1> QED
    BY <1>1, <1>2, <1>3, <1>4, <1>5, Zenon DEF LookupNext

\* The devices agree with the announcements in every state of the lookup.
THEOREM DiscoveryInductive == LookupSpec => []DiscoveryInv
  <1>1. LookupInit => DiscoveryInv
    BY NothingListed, Zenon DEF LookupInit, DiscoveryInit, DiscoveryInv
  <1> QED
    BY <1>1, LookupKeepsDevices, PTL DEF LookupSpec

\* discover lists a device exactly while the instance it was last resolved under
\* has not been removed, and under that instance.
THEOREM DevicesSafe == LookupSpec => []DevicesAreLive
  <1>1. DiscoveryInv => DevicesAreLive
    <2> SUFFICES ASSUME DiscoveryInv, NEW id \in Ids
                 PROVE  /\ id \in DOMAIN devices <=> \E k \in ResolvedAt(id) : Held(id, k, Len(announced))
                        /\ id \in DOMAIN devices => devices[id].instance = announced[Max(ResolvedAt(id))].instance
      BY Zenon DEF DevicesAreLive, Ids
    <2>1. ResolvedAt(id) = ResolvedIn(announced, id)
      BY Zenon DEF ResolvedAt, ResolvedIn
    <2>2. \A k : Held(id, k, Len(announced)) <=> HeldIn(announced, id, k, Len(announced))
      BY <2>1, Zenon DEF Held, HeldIn, Latest
    <2>3. Since(announced, id) # {} <=> \E k \in ResolvedAt(id) : Held(id, k, Len(announced))
      BY <2>1, <2>2, Zenon DEF Since
    <2> QED
      BY <2>1, <2>3, Zenon DEF DiscoveryInv, Agree, ListedAs
  <1> QED
    BY <1>1, DiscoveryInductive, PTL

\* A device has all its current routes and none but those announced since it was
\* listed, and the best comes first: what merge_device keeps and
\* sort_and_deduplicate_endpoints orders.
THEOREM RoutesSafe == LookupSpec => []RoutesAreKept
  <1>1. DiscoveryInv => RoutesAreKept
    <2> SUFFICES ASSUME DiscoveryInv, NEW id \in DOMAIN devices
                 PROVE  LET since     == {k \in ResolvedAt(id) : Held(id, k, Len(announced))}
                            current   == {k \in since : \A r \in k + 1 .. Len(announced) :
                                                          announced[r].instance # announced[k].instance}
                            routes(K) == UNION {usable_endpoints(announced[k].service) : k \in K}
                            kept      == devices[id].endpoints
                        IN  /\ routes(current) \subseteq Range(kept) /\ Range(kept) \subseteq routes(since)
                            /\ kept # << >>
                            /\ \A i \in DOMAIN kept : endpoint_priority(kept[1]) <= endpoint_priority(kept[i])
      BY Zenon DEF RoutesAreKept
    <2>1. ResolvedAt(id) = ResolvedIn(announced, id)
      BY Zenon DEF ResolvedAt, ResolvedIn
    <2>2. \A k : Held(id, k, Len(announced)) <=> HeldIn(announced, id, k, Len(announced))
      BY <2>1, Zenon DEF Held, HeldIn, Latest
    <2>3. {k \in ResolvedAt(id) : Held(id, k, Len(announced))} = Since(announced, id)
      BY <2>1, <2>2, Zenon DEF Since
    <2>4. ListedAs(devices[id], announced, id)
      BY Zenon DEF DiscoveryInv, Agree
    <2>5. /\ Range(devices[id].endpoints) = UNION {usable_endpoints(announced[k].service) : k \in Since(announced, id)}
          /\ devices[id].endpoints # << >> /\ BestFirst(devices[id].endpoints)
      BY <2>4, Zenon DEF ListedAs, Given, Orders
    <2> QED
      BY <2>3, <2>5, Zenon DEF BestFirst
  <1> QED
    BY <1>1, DiscoveryInductive, PTL
-----------------------------------------------------------------------------
(* The setup query.                                                           *)
Bytes == Seq(Byte)

\* The bytes of p are the first of a.
Starts(p, a) == p \in Bytes /\ a \in Bytes /\ Len(p) <= Len(a) /\ \A i \in 1 .. Len(p) : p[i] = a[i]

\* What lies within the first bytes of a is the same in both.
LEMMA SameWithin ==
  ASSUME NEW p, NEW a, Starts(p, a), NEW i \in Nat \ {0}, NEW j \in Int, j <= Len(p)
  PROVE  SubSeq(p, i, j) = SubSeq(a, i, j)
  <1>1. CASE i <= j
    <2>1. /\ SubSeq(p, i, j) \in Bytes /\ Len(SubSeq(p, i, j)) = 1 + j - i
          /\ SubSeq(a, i, j) \in Bytes /\ Len(SubSeq(a, i, j)) = 1 + j - i
      BY <1>1 DEF Starts, Bytes
    <2>2. \A k \in 1 .. 1 + j - i : SubSeq(p, i, j)[k] = SubSeq(a, i, j)[k]
      BY <1>1 DEF Starts, Bytes
    <2> QED
      BY <2>1, <2>2, SeqEqual, Zenon DEF Bytes
  <1>2. CASE ~(i <= j)
    <2>1. SubSeq(p, i, j) = << >> /\ SubSeq(a, i, j) = << >>
      BY <1>2 DEF Starts, Bytes
    <2> QED
      BY <2>1, Zenon
  <1> QED
    BY <1>1, <1>2, Zenon

\* The first bytes of a from some place on are those of p from there on.
LEMMA StartsFrom ==
  ASSUME NEW p, NEW a, Starts(p, a), NEW i \in 0 .. Len(p)
  PROVE  Starts(SubSeq(p, i + 1, Len(p)), SubSeq(a, i + 1, Len(a)))
  <1> DEFINE q == SubSeq(p, i + 1, Len(p))
             b == SubSeq(a, i + 1, Len(a))
  <1>1. q \in Bytes /\ b \in Bytes /\ Len(q) = Len(p) - i /\ Len(b) = Len(a) - i
    BY DEF Starts, Bytes
  <1>2. /\ \A k \in 1 .. Len(p) - i : q[k] = p[k + i]
        /\ \A k \in 1 .. Len(a) - i : b[k] = a[k + i]
    BY DEF Starts, Bytes
  <1> HIDE DEF q, b
  <1>3. Len(q) <= Len(b) /\ \A k \in 1 .. Len(q) : k \in 1 .. Len(p) - i /\ k \in 1 .. Len(a) - i
    BY <1>1 DEF Starts, Bytes
  <1>4. \A k \in 1 .. Len(p) - i : p[k + i] = a[k + i]
    BY DEF Starts, Bytes
  <1> QED
    BY <1>1, <1>2, <1>3, <1>4, Zenon DEF Starts, q, b

\* Min of naturals is the least of them.
LEMMA MinFacts ==
  ASSUME NEW S \in SUBSET Nat, S # {}
  PROVE  Min(S) \in S /\ \A y \in S : Min(S) <= y
  <1>1. PICK n \in S : \A m \in S : ~(m < n)
    BY LeastNat, Zenon
  <1>2. \A m \in S : n <= m
    BY <1>1
  <1> QED
    BY <1>2, Zenon DEF Min

\* There is `pattern` in s, i bytes from `offset`.
Matches(s, offset, pattern, i) ==
  /\ i \in 0 .. Len(s) - offset - Len(pattern)
  /\ SubSeq(s, offset + i + 1, offset + i + Len(pattern)) = pattern

\* position finds the first match.
LEMMA PositionFacts ==
  ASSUME NEW s \in Bytes, NEW offset \in Nat, NEW pattern \in Bytes
  PROVE  LET k == position(s, offset, pattern)
         IN  \/ k = -1 /\ \A i : ~Matches(s, offset, pattern, i)
             \/ k \in Nat /\ Matches(s, offset, pattern, k) /\ \A i : Matches(s, offset, pattern, i) => k <= i
  <1> DEFINE found == {i \in 0 .. Len(s) - offset - Len(pattern) :
                         SubSeq(s, offset + i + 1, offset + i + Len(pattern)) = pattern}
  <1>1. \A i : i \in found <=> Matches(s, offset, pattern, i)
    BY Zenon DEF Matches
  <1>2. found \in SUBSET Nat
    BY DEF Bytes
  <1>3. position(s, offset, pattern) = IF found = {} THEN -1 ELSE Min(found)
    BY Zenon DEF position
  <1> HIDE DEF found
  <1>4. CASE found = {}
    BY <1>1, <1>3, <1>4, Zenon
  <1>5. CASE found # {}
    <2>1. Min(found) \in found /\ \A y \in found : Min(found) <= y
      BY <1>2, <1>5, MinFacts, Zenon
    <2>2. Min(found) \in Nat
      BY <1>2, <2>1, Zenon
    <2> QED
      BY <1>1, <1>3, <1>5, <2>1, <2>2, Zenon
  <1> QED
    BY <1>4, <1>5, Zenon

\* A match in the first bytes of a is one in a, and one that ends there is one in them.
LEMMA MatchesWithin ==
  ASSUME NEW p, NEW a, Starts(p, a), NEW offset \in Nat, NEW pattern \in Bytes, NEW i \in Nat,
         offset + i + Len(pattern) <= Len(p)
  PROVE  Matches(p, offset, pattern, i) <=> Matches(a, offset, pattern, i)
  <1>1. /\ Len(p) \in Nat /\ Len(a) \in Nat /\ Len(p) <= Len(a) /\ Len(pattern) \in Nat
        /\ offset + i + 1 \in Nat \ {0} /\ offset + i + Len(pattern) \in Int
    BY DEF Starts, Bytes
  <1>2. i \in 0 .. Len(p) - offset - Len(pattern) /\ i \in 0 .. Len(a) - offset - Len(pattern)
    BY <1>1
  <1>3. SubSeq(p, offset + i + 1, offset + i + Len(pattern)) = SubSeq(a, offset + i + 1, offset + i + Len(pattern))
    BY <1>1, SameWithin, Zenon
  <1> QED
    BY <1>2, <1>3, Zenon DEF Matches

\* What position finds in the first bytes of a it finds in a.
LEMMA PositionWithin ==
  ASSUME NEW p, NEW a, Starts(p, a), NEW offset \in Nat, NEW pattern \in Bytes,
         position(p, offset, pattern) # -1
  PROVE  position(a, offset, pattern) = position(p, offset, pattern)
  <1> DEFINE k == position(p, offset, pattern)
             m == position(a, offset, pattern)
  <1>1. p \in Bytes /\ a \in Bytes /\ Len(p) \in Nat /\ Len(pattern) \in Nat
    BY DEF Starts, Bytes
  <1>2. k \in Nat /\ Matches(p, offset, pattern, k) /\ \A i : Matches(p, offset, pattern, i) => k <= i
    BY <1>1, PositionFacts, Zenon
  <1>3. offset + k + Len(pattern) <= Len(p)
    <2>1. k \in 0 .. Len(p) - offset - Len(pattern)
      BY <1>2, Zenon DEF Matches
    <2> HIDE DEF k
    <2> QED
      BY <1>1, <2>1
  <1>4. Matches(a, offset, pattern, k)
    BY <1>2, <1>3, MatchesWithin, Zenon
  <1>5. m \in Nat /\ Matches(a, offset, pattern, m) /\ m <= k
    BY <1>1, <1>4, PositionFacts, Zenon
  <1> HIDE DEF k, m
  <1>6. offset + m + Len(pattern) <= Len(p)
    BY <1>1, <1>2, <1>3, <1>5
  <1>7. Matches(p, offset, pattern, m)
    BY <1>5, <1>6, MatchesWithin, Zenon
  <1>8. k <= m
    BY <1>2, <1>7, Zenon
  <1>9. m = k
    BY <1>2, <1>5, <1>8
  <1> QED
    BY <1>9, Zenon DEF k, m

\* The recursive function of chunk_size, up to n.
Value(d) == (CHOOSE k \in DOMAIN Digits : Digits[k] = d) - 1
Sizing(line, n, k) ==
  k = [i \in 0 .. n |-> IF i = 0 THEN 0 ELSE 16 * k[i - 1] + Value(line[i])]

\* It exists.
LEMMA SizingExists ==
  ASSUME NEW line, NEW n \in Nat
  PROVE  \E k : Sizing(line, n, k)
  <1> DEFINE X == {m \in 0 .. n : \E k : Sizing(line, m, k)}
  <1>1. 0 \in X
    <2>1. Sizing(line, 0, [i \in 0 .. 0 |-> 0])
      BY DEF Sizing
    <2>2. 0 \in 0 .. n
      OBVIOUS
    <2> QED
      BY <2>1, <2>2, Zenon
  <1>2. ASSUME NEW m \in 1 .. n, m - 1 \in X PROVE m \in X
    <2>1. PICK k : Sizing(line, m - 1, k)
      BY <1>2, Zenon
    <2> DEFINE v == 16 * k[m - 1] + Value(line[m])
               h == [i \in 0 .. m |-> IF i = m THEN v ELSE k[i]]
    <2>2. /\ \A i \in 0 .. m : i # m => i \in 0 .. m - 1
          /\ m # 0 /\ m \in 0 .. n
      OBVIOUS
    <2>3. ASSUME NEW i \in 0 .. m
          PROVE  h[i] = IF i = 0 THEN 0 ELSE 16 * h[i - 1] + Value(line[i])
      <3>1. i # 0 => i - 1 \in 0 .. m /\ i - 1 # m
        OBVIOUS
      <3> HIDE DEF v
      <3>2. i # 0 => h[i - 1] = k[i - 1]
        BY <3>1, Zenon
      <3>3. CASE i = m
        BY <2>2, <3>2, <3>3, Zenon DEF v
      <3>4. CASE i # m
        BY <2>1, <2>2, <3>2, <3>4, Zenon DEF Sizing
      <3> QED
        BY <3>3, <3>4, Zenon
    <2> HIDE DEF v
    <2>4. Sizing(line, m, h)
      BY <2>3, Zenon DEF Sizing
    <2> QED
      BY <2>2, <2>4, Zenon
  <1> HIDE DEF X
  <1>3. \A i \in 0 .. n : i \in X
    BY <1>1, <1>2, Climb, Zenon
  <1>4. n \in 0 .. n
    OBVIOUS
  <1> QED
    BY <1>3, <1>4, Zenon DEF X

\* A line gives a size or none.
LEMMA ChunkSizeType ==
  ASSUME NEW line \in Bytes
  PROVE  chunk_size(line) \in Nat \cup {-1}
  <1> SUFFICES ASSUME line # << >>, Range(line) \subseteq Range(Digits) PROVE chunk_size(line) \in Nat
    <2>1. line = << >> \/ ~(Range(line) \subseteq Range(Digits)) => chunk_size(line) = -1
      BY Zenon DEF chunk_size
    <2> QED
      BY <2>1, Zenon
  <1>1. Len(line) \in Nat /\ DOMAIN line = 1 .. Len(line)
    BY DEF Bytes
  <1>2. PICK k : Sizing(line, Len(line), k) /\ chunk_size(line) = k[Len(line)]
    <2>1. \E k : Sizing(line, Len(line), k)
      BY <1>1, SizingExists, Zenon
    <2> QED
      BY <2>1, Zenon DEF Sizing, chunk_size, Value
  <1> DEFINE X == {i \in 0 .. Len(line) : k[i] \in Nat}
  <1>3. 0 \in X
    <2>1. 0 \in 0 .. Len(line) /\ 0 \in Nat
      BY <1>1
    <2> QED
      BY <1>2, <2>1, Zenon DEF Sizing
  <1>4. ASSUME NEW i \in 1 .. Len(line), i - 1 \in X PROVE i \in X
    <2>1. line[i] \in Range(Digits)
      BY <1>1, Zenon DEF Range
    <2>2. PICK d \in DOMAIN Digits : Digits[d] = line[i]
      BY <2>1, Zenon DEF Range
    <2>3. Value(line[i]) \in {e - 1 : e \in DOMAIN Digits}
      BY <2>2, Zenon DEF Value
    <2>4. DOMAIN Digits = 1 .. 3
      BY DEF Digits
    <2>5. Value(line[i]) \in Nat
      BY <2>3, <2>4
    <2>6. i \in 0 .. Len(line) /\ i # 0
      BY <1>1
    <2>7. k[i] = 16 * k[i - 1] + Value(line[i])
      BY <1>2, <2>6, Zenon DEF Sizing
    <2>8. k[i - 1] \in Nat
      BY <1>4, Zenon
    <2>9. \A x \in Nat, y \in Nat : 16 * x + y \in Nat
      OBVIOUS
    <2> QED
      BY <2>5, <2>6, <2>7, <2>8, <2>9, Zenon
  <1> HIDE DEF X
  <1>5. \A i \in 0 .. Len(line) : i \in X
    BY <1>1, <1>3, <1>4, Climb, Zenon
  <1>6. Len(line) \in 0 .. Len(line)
    BY <1>1
  <1> QED
    BY <1>2, <1>5, <1>6, Zenon DEF X

\* A turn of the loop of chunked_body_length, by what it finds: the line and the
\* size, where the data starts, the first line end and the end of the trailers from
\* there, where the next chunk starts, how many bytes there are, and the terminator.
Returns(extent) == [returns |-> TRUE, at |-> extent]
Turn(line_end, size, data, first, trailers, next, length, terminator) ==
  IF line_end < 0 THEN Returns(Unknown)
  ELSE IF line_end > MAX_LINE \/ size < 0 THEN Returns(Invalid)
  ELSE IF size = 0
       THEN IF first = 0 THEN Returns(data + 2)
            ELSE IF trailers < 0 THEN Returns(Unknown) ELSE Returns(data + trailers + 4)
  ELSE IF size > MAX_RESPONSE_BYTES THEN Returns(Invalid)
  ELSE IF next > length THEN Returns(Unknown)
  ELSE IF terminator # CRLF \/ next > MAX_RESPONSE_BYTES THEN Returns(Invalid)
  ELSE [returns |-> FALSE, at |-> next]

Line(s, offset) == position(s, offset, CRLF)
Size(s, offset) == chunk_size(SubSeq(s, offset + 1, offset + Line(s, offset)))
Data(s, offset) == offset + Line(s, offset) + 2
Trailers(s, data) == position(s, data, CRLF \o CRLF)
Following(s, offset) == Data(s, offset) + Size(s, offset) + 2

\* A turn of the loop is Turn of what it looks at.
LEMMA TurnForm ==
  ASSUME NEW s, NEW offset
  PROVE  chunk_at(s, offset) =
           Turn(Line(s, offset), Size(s, offset), Data(s, offset), Line(s, Data(s, offset)),
                Trailers(s, Data(s, offset)), Following(s, offset), Len(s),
                SubSeq(s, Following(s, offset) - 1, Following(s, offset)))
  BY Zenon DEF chunk_at, Turn, Returns, Line, Size, Data, Trailers, Following

\* The patterns chunked_body_length looks for.
LEMMA PatternTypes == CRLF \in Bytes /\ CRLF \o CRLF \in Bytes /\ Len(CRLF) = 2 /\ Len(CRLF \o CRLF) = 4
  <1>1. CRLF \in Seq(Byte) /\ Len(CRLF) = 2
    BY DEF CRLF, Byte
  <1>2. CRLF \o CRLF \in Seq(Byte) /\ Len(CRLF \o CRLF) = Len(CRLF) + Len(CRLF)
    BY <1>1, ConcatProperties, Zenon
  <1>3. 2 + 2 = 4
    OBVIOUS
  <1> QED
    BY <1>1, <1>2, <1>3, Zenon DEF Bytes

\* What a turn finds: numbers, the data within the bytes.
LEMMA TurnTypes ==
  ASSUME NEW s \in Bytes, NEW offset \in 0 .. Len(s)
  PROVE  /\ Line(s, offset) \in Nat \cup {-1}
         /\ Line(s, offset) # -1 =>
              /\ Size(s, offset) \in Nat \cup {-1}
              /\ Data(s, offset) \in Nat /\ offset + 2 <= Data(s, offset) /\ Data(s, offset) <= Len(s)
              /\ Trailers(s, Data(s, offset)) \in Nat \cup {-1}
              /\ Following(s, offset) \in Int
              /\ Size(s, offset) \in Nat => Data(s, offset) <= Following(s, offset)
  <1> DEFINE l == Line(s, offset)
  <1>1. Len(s) \in Nat /\ offset \in Nat
    BY DEF Bytes
  <1>2. l = -1 \/ (l \in Nat /\ Matches(s, offset, CRLF, l))
    BY <1>1, PositionFacts, PatternTypes, Zenon DEF Line
  <1> SUFFICES ASSUME l # -1
               PROVE  /\ l \in Nat /\ Size(s, offset) \in Nat \cup {-1}
                      /\ Data(s, offset) \in Nat /\ offset + 2 <= Data(s, offset) /\ Data(s, offset) <= Len(s)
                      /\ Trailers(s, Data(s, offset)) \in Nat \cup {-1}
                      /\ Following(s, offset) \in Int
                      /\ Size(s, offset) \in Nat => Data(s, offset) <= Following(s, offset)
    BY <1>2, Zenon
  <1>3. l \in Nat /\ l \in 0 .. Len(s) - offset - 2
    BY <1>2, PatternTypes, Zenon DEF Matches
  <1> HIDE DEF l
  <1>4. Data(s, offset) \in Nat /\ offset + 2 <= Data(s, offset) /\ Data(s, offset) <= Len(s)
    <2>1. offset + l + 2 \in Nat /\ offset + 2 <= offset + l + 2 /\ offset + l + 2 <= Len(s)
      BY <1>1, <1>3
    <2> QED
      BY <2>1, Zenon DEF Data, l
  <1>5. Size(s, offset) \in Nat \cup {-1}
    <2>1. SubSeq(s, offset + 1, offset + l) \in Bytes
      BY <1>1, <1>3 DEF Bytes
    <2> QED
      BY <2>1, ChunkSizeType, Zenon DEF Size, l
  <1>6. Trailers(s, Data(s, offset)) \in Nat \cup {-1}
    BY <1>4, PositionFacts, PatternTypes, Zenon DEF Trailers
  <1>7. \A d \in Nat, z \in Nat \cup {-1} : d + z + 2 \in Int /\ (z \in Nat => d <= d + z + 2)
    OBVIOUS
  <1>8. Following(s, offset) \in Int /\ (Size(s, offset) \in Nat => Data(s, offset) <= Following(s, offset))
    BY <1>4, <1>5, <1>7, Zenon DEF Following
  <1> QED
    BY <1>3, <1>4, <1>5, <1>6, <1>8, Zenon DEF l

\* A turn returns a number, or goes on with a later chunk.
LEMMA TurnFacts ==
  ASSUME NEW s \in Bytes, NEW offset \in 0 .. Len(s)
  PROVE  LET turn == chunk_at(s, offset)
         IN  /\ turn.returns \in BOOLEAN /\ turn.at \in Int
             /\ ~turn.returns => turn.at \in offset + 1 .. Len(s)
  <1>1. ASSUME NEW l \in Nat, NEW z \in Nat \cup {-1}, NEW d \in Nat, NEW f, NEW t \in Nat \cup {-1},
               NEW n \in Int, NEW m, offset + 2 <= d, z \in Nat => d <= n
        PROVE  LET turn == Turn(l, z, d, f, t, n, Len(s), m)
               IN  /\ turn.returns \in BOOLEAN /\ turn.at \in Int
                   /\ ~turn.returns => turn.at \in offset + 1 .. Len(s)
    BY <1>1 DEF Turn, Returns, Unknown, Invalid, Bytes
  <1>2. CASE Line(s, offset) = -1
    <2>1. chunk_at(s, offset) = Returns(Unknown)
      <3>1. Line(s, offset) < 0
        BY <1>2
      <3> QED
        BY <3>1, TurnForm, Zenon DEF Turn
    <2> QED
      BY <2>1 DEF Returns, Unknown
  <1>3. CASE Line(s, offset) # -1
    BY <1>1, <1>3, TurnTypes, TurnForm, Zenon
  <1> QED
    BY <1>2, <1>3, Zenon

\* A line end right at `data` in a is one in the first bytes of a, if it is within.
LEMMA EndedWithin ==
  ASSUME NEW p, NEW a, Starts(p, a), NEW data \in Nat, Line(a, data) = 0, data + 2 <= Len(p)
  PROVE  Line(p, data) = 0
  <1>1. p \in Bytes /\ a \in Bytes /\ Len(p) \in Nat /\ data + 0 + 2 <= Len(p) /\ 0 \in Nat /\ 0 # -1
    BY DEF Starts, Bytes
  <1>2. Matches(a, data, CRLF, 0)
    BY <1>1, PositionFacts, PatternTypes, Zenon DEF Line
  <1>3. Matches(p, data, CRLF, 0)
    BY <1>1, <1>2, MatchesWithin, PatternTypes, Zenon
  <1>4. position(p, data, CRLF) \in Nat /\ position(p, data, CRLF) <= 0
    BY <1>1, <1>3, PositionFacts, PatternTypes, Zenon
  <1>5. \A x \in Nat : x <= 0 => x = 0
    OBVIOUS
  <1> QED
    BY <1>4, <1>5, Zenon DEF Line

\* Two turns that find the same as far as the first one looks return the same.
LEMMA TurnSame ==
  ASSUME NEW l, NEW z, NEW d, NEW f, NEW t, NEW n, NEW e, NEW m, NEW f2, NEW t2, NEW e2, NEW m2,
         f = 0 => f2 = 0,
         f # 0 /\ ~(t < 0) => f2 # 0 /\ t2 = t,
         ~(z < 0) /\ ~(n > e) => ~(n > e2) /\ m2 = m,
         Turn(l, z, d, f, t, n, e, m) # Returns(Unknown)
  PROVE  Turn(l, z, d, f2, t2, n, e2, m2) = Turn(l, z, d, f, t, n, e, m)
  <1>1. CASE l < 0
    BY <1>1, Zenon DEF Turn
  <1>2. CASE ~(l < 0) /\ (l > MAX_LINE \/ z < 0)
    BY <1>2, Zenon DEF Turn
  <1>3. CASE ~(l < 0) /\ ~(l > MAX_LINE \/ z < 0) /\ z = 0
    BY <1>3, Zenon DEF Turn
  <1>4. CASE ~(l < 0) /\ ~(l > MAX_LINE \/ z < 0) /\ z # 0
    BY <1>4, Zenon DEF Turn
  <1> QED
    BY <1>1, <1>2, <1>3, <1>4, Zenon

\* What a turn returns on the first bytes of a, or the chunk it goes on with, is
\* the same on all of a, unless it has to see more.
LEMMA TurnWithin ==
  ASSUME NEW p, NEW a, Starts(p, a), NEW offset \in 0 .. Len(p), chunk_at(p, offset) # Returns(Unknown)
  PROVE  chunk_at(a, offset) = chunk_at(p, offset)
  <1> DEFINE l == Line(p, offset)
             z == Size(p, offset)
             d == Data(p, offset)
             n == Following(p, offset)
  <1>1. /\ p \in Bytes /\ a \in Bytes /\ Len(p) \in Nat /\ Len(a) \in Nat /\ Len(p) <= Len(a)
        /\ offset \in Nat /\ offset + 1 \in Nat \ {0}
    BY DEF Starts, Bytes
  <1>2. l # -1
    <2> SUFFICES ASSUME l = -1 PROVE FALSE
      BY Zenon
    <2>1. l < 0
      OBVIOUS
    <2> QED
      BY <2>1, TurnForm, Zenon DEF Turn
  <1>3. /\ l \in Nat /\ z \in Nat \cup {-1} /\ d \in Nat /\ offset + 2 <= d /\ d <= Len(p)
        /\ Trailers(p, d) \in Nat \cup {-1} /\ n \in Int /\ (z \in Nat => d <= n)
    <2>1. l \in Nat \cup {-1}
      BY <1>1, TurnTypes, Zenon
    <2> QED
      BY <1>1, <1>2, <2>1, TurnTypes, Zenon
  <1>4. Line(a, offset) = l
    <2>1. position(p, offset, CRLF) # -1
      BY <1>2, Zenon DEF Line
    <2>2. position(a, offset, CRLF) = position(p, offset, CRLF)
      BY <1>1, <2>1, PositionWithin, PatternTypes
    <2> QED
      BY <2>2, Zenon DEF Line
  <1>5. Data(a, offset) = d
    BY <1>4, Zenon DEF Data
  <1>6. Size(a, offset) = z
    <2> HIDE DEF l
    <2>1. d = offset + l + 2
      BY Zenon DEF Data, l
    <2> HIDE DEF d
    <2>2. offset + l \in Int /\ offset + l <= Len(p)
      BY <1>1, <1>3, <2>1
    <2>3. SubSeq(p, offset + 1, offset + l) = SubSeq(a, offset + 1, offset + l)
      BY <1>1, <2>2, SameWithin, Zenon
    <2> QED
      BY <1>4, <2>3, Zenon DEF Size, l
  <1>7. Following(a, offset) = n
    BY <1>5, <1>6, Zenon DEF Following
  <1>8. Line(p, d) = 0 => Line(a, d) = 0
    <2>1. 0 # -1
      OBVIOUS
    <2> QED
      BY <1>3, <2>1, PositionWithin, PatternTypes, Zenon DEF Line
  <1>9. ASSUME Line(p, d) # 0, ~(Trailers(p, d) < 0) PROVE Line(a, d) # 0 /\ Trailers(a, d) = Trailers(p, d)
    <2> HIDE DEF d
    <2>1. Trailers(p, d) # -1
      BY <1>9
    <2>2. Trailers(a, d) = Trailers(p, d)
      <3>1. position(p, d, CRLF \o CRLF) # -1
        BY <2>1, Zenon DEF Trailers
      <3>2. position(a, d, CRLF \o CRLF) = position(p, d, CRLF \o CRLF)
        BY <1>3, <3>1, PositionWithin, PatternTypes
      <3> QED
        BY <3>2, Zenon DEF Trailers
    <2>3. Trailers(p, d) \in Nat /\ Trailers(p, d) \in 0 .. Len(p) - d - 4
      BY <1>1, <1>3, <2>1, PositionFacts, PatternTypes, Zenon DEF Trailers, Matches
    <2>4. d + 2 <= Len(p)
      BY <1>1, <1>3, <2>3
    <2> QED
      BY <1>3, <1>9, <2>2, <2>4, EndedWithin, Zenon
  <1>10. ASSUME z \in Nat, ~(n > Len(p))
         PROVE  ~(n > Len(a)) /\ SubSeq(a, n - 1, n) = SubSeq(p, n - 1, n)
    <2> HIDE DEF n, d
    <2>1. ~(n > Len(a)) /\ n <= Len(p) /\ n - 1 \in Nat \ {0}
      BY <1>1, <1>3, <1>10
    <2>2. SubSeq(p, n - 1, n) = SubSeq(a, n - 1, n)
      BY <1>3, <2>1, SameWithin, Zenon
    <2> QED
      BY <2>1, <2>2, Zenon
  <1>11. ~(z < 0) => z \in Nat
    BY <1>3
  <1> DEFINE m(s) == SubSeq(s, n - 1, n)
  <1>12. /\ chunk_at(p, offset) = Turn(l, z, d, Line(p, d), Trailers(p, d), n, Len(p), m(p))
         /\ chunk_at(a, offset) = Turn(l, z, d, Line(a, d), Trailers(a, d), n, Len(a), m(a))
    BY <1>4, <1>5, <1>6, <1>7, TurnForm, Zenon
  <1>13. ~(z < 0) /\ ~(n > Len(p)) => ~(n > Len(a)) /\ m(a) = m(p)
    BY <1>10, <1>11, Zenon
  <1> HIDE DEF l, z, d, n, m
  <1>14. Turn(l, z, d, Line(p, d), Trailers(p, d), n, Len(p), m(p)) # Returns(Unknown)
    BY <1>12, Zenon
  <1>15. Turn(l, z, d, Line(a, d), Trailers(a, d), n, Len(a), m(a)) =
           Turn(l, z, d, Line(p, d), Trailers(p, d), n, Len(p), m(p))
    BY <1>8, <1>9, <1>13, <1>14, TurnSame
  <1> QED
    BY <1>12, <1>15, Zenon

\* The recursive function of chunked_body_length, from m on.
Looping(s, m, f) ==
  f = [offset \in m .. Len(s) |->
         LET turn == chunk_at(s, offset)
         IN  IF turn.returns THEN turn.at ELSE f[turn.at]]

\* It exists.
LEMMA LoopingExists ==
  ASSUME NEW s \in Bytes
  PROVE  \E f : Looping(s, 0, f)
  <1> DEFINE X == {j \in 0 .. Len(s) : \E f : Looping(s, Len(s) - j, f)}
             turn(offset) == chunk_at(s, offset)
  <1>1. Len(s) \in Nat /\ 0 \in 0 .. Len(s) /\ Len(s) \in 0 .. Len(s) /\ Len(s) - 0 = Len(s) /\ Len(s) - Len(s) = 0
    BY DEF Bytes
  <1>2. \A offset \in 0 .. Len(s) : ~turn(offset).returns => turn(offset).at \in offset + 1 .. Len(s)
    BY TurnFacts, Zenon
  <1> HIDE DEF turn
  <1>3. 0 \in X
    <2> DEFINE f == [offset \in Len(s) .. Len(s) |-> turn(offset).at]
    <2>1. \A offset \in Len(s) .. Len(s) : offset \in 0 .. Len(s) /\ offset + 1 .. Len(s) = {}
      BY <1>1
    <2>2. \A offset \in Len(s) .. Len(s) : turn(offset).returns
      BY <1>2, <2>1, Zenon
    <2>3. f = [offset \in Len(s) .. Len(s) |-> IF turn(offset).returns THEN turn(offset).at ELSE f[turn(offset).at]]
      BY <2>2, Zenon
    <2>4. Looping(s, Len(s), f)
      BY <2>3, Zenon DEF Looping, turn
    <2> HIDE DEF f
    <2> QED
      BY <1>1, <2>4, Zenon
  <1>4. ASSUME NEW j \in 1 .. Len(s), j - 1 \in X PROVE j \in X
    <2> DEFINE m == Len(s) - j
    <2>1. /\ Len(s) - (j - 1) = m + 1 /\ m \in 0 .. Len(s) /\ j \in 0 .. Len(s)
          /\ \A i \in m .. Len(s) : i # m => i \in m + 1 .. Len(s)
          /\ \A i \in m .. Len(s) : i \in 0 .. Len(s)
          /\ \A i \in m .. Len(s) : \A k \in i + 1 .. Len(s) : k \in m .. Len(s) /\ k # m
      <3>1. m \in Int /\ Len(s) - (j - 1) = m + 1 /\ m \in 0 .. Len(s) /\ j \in 0 .. Len(s)
        BY <1>1
      <3> HIDE DEF m
      <3> QED
        BY <1>1, <3>1
    <2>2. PICK g : Looping(s, m + 1, g)
      BY <1>4, <2>1, Zenon
    <2> HIDE DEF m
    <2> DEFINE v == IF turn(m).returns THEN turn(m).at ELSE g[turn(m).at]
               f == [i \in m .. Len(s) |-> IF i = m THEN v ELSE g[i]]
    <2>3. ASSUME NEW i \in m .. Len(s)
          PROVE  f[i] = IF turn(i).returns THEN turn(i).at ELSE f[turn(i).at]
      <3>1. ~turn(i).returns => turn(i).at \in m .. Len(s) /\ turn(i).at # m
        BY <1>2, <2>1, Zenon
      <3> HIDE DEF v
      <3>2. ~turn(i).returns => f[turn(i).at] = g[turn(i).at]
        BY <3>1, Zenon
      <3>3. CASE i = m
        <4>1. f[i] = v
          BY <3>3, Zenon
        <4> HIDE DEF f
        <4> QED
          BY <3>2, <3>3, <4>1, Zenon DEF v
      <3>4. CASE i # m
        <4>1. f[i] = g[i]
          BY <3>4, Zenon
        <4>2. g[i] = IF turn(i).returns THEN turn(i).at ELSE g[turn(i).at]
          BY <2>1, <2>2, <3>4, Zenon DEF Looping, turn
        <4> HIDE DEF f
        <4> QED
          BY <3>2, <4>1, <4>2, Zenon
      <3> QED
        BY <3>3, <3>4, Zenon
    <2> HIDE DEF v
    <2>4. f = [i \in m .. Len(s) |-> IF turn(i).returns THEN turn(i).at ELSE f[turn(i).at]]
      BY <2>3, Zenon
    <2> HIDE DEF f
    <2>5. Looping(s, m, f)
      BY <2>4, Zenon DEF Looping, turn
    <2> QED
      BY <2>1, <2>5, Zenon DEF m
  <1> HIDE DEF X
  <1>5. \A i \in 0 .. Len(s) : i \in X
    BY <1>1, <1>3, <1>4, Climb, Zenon
  <1> QED
    BY <1>1, <1>5, Zenon DEF X

\* The loop returns a number wherever it starts.
LEMMA LoopingType ==
  ASSUME NEW s \in Bytes, NEW f, Looping(s, 0, f)
  PROVE  \A offset \in 0 .. Len(s) : f[offset] \in Int
  <1> DEFINE X == {j \in 0 .. Len(s) : \A i \in Len(s) - j .. Len(s) : f[i] \in Int}
             turn(offset) == chunk_at(s, offset)
  <1>1. /\ Len(s) \in Nat /\ 0 \in 0 .. Len(s) /\ Len(s) \in 0 .. Len(s) /\ Len(s) - Len(s) = 0
        /\ \A i \in Len(s) - 0 .. Len(s) : i \in 0 .. Len(s) /\ i + 1 .. Len(s) = {}
    BY DEF Bytes
  <1>2. \A i \in 0 .. Len(s) : /\ turn(i).at \in Int
                               /\ ~turn(i).returns => turn(i).at \in i + 1 .. Len(s)
                               /\ f[i] = IF turn(i).returns THEN turn(i).at ELSE f[turn(i).at]
    BY TurnFacts, Zenon DEF Looping
  <1> HIDE DEF turn
  <1>3. 0 \in X
    BY <1>1, <1>2, Zenon
  <1>4. ASSUME NEW j \in 1 .. Len(s), j - 1 \in X PROVE j \in X
    <2>1. ASSUME NEW i \in Len(s) - j .. Len(s)
          PROVE  /\ i \in 0 .. Len(s) /\ j \in 0 .. Len(s)
                 /\ \A k \in i + 1 .. Len(s) : k \in Len(s) - (j - 1) .. Len(s)
      BY <1>1
    <2>2. ASSUME NEW i \in Len(s) - j .. Len(s) PROVE f[i] \in Int
      BY <1>2, <1>4, <2>1, Zenon
    <2>3. j \in 0 .. Len(s)
      BY <1>1
    <2> QED
      BY <2>2, <2>3, Zenon
  <1> HIDE DEF X
  <1>5. \A i \in 0 .. Len(s) : i \in X
    BY <1>1, <1>3, <1>4, Climb, Zenon
  <1> QED
    BY <1>1, <1>5, Zenon DEF X

\* What the loop returns on the first bytes of a, it returns on a.
LEMMA LoopingWithin ==
  ASSUME NEW p, NEW a, Starts(p, a), NEW f, Looping(p, 0, f), NEW g, Looping(a, 0, g)
  PROVE  \A offset \in 0 .. Len(p) : f[offset] # Unknown => g[offset] = f[offset]
  <1> DEFINE Same(i) == f[i] # Unknown => g[i] = f[i]
             X == {j \in 0 .. Len(p) : \A i \in Len(p) - j .. Len(p) : Same(i)}
             turn(offset) == chunk_at(p, offset)
             whole(offset) == chunk_at(a, offset)
  <1>1. /\ p \in Bytes /\ a \in Bytes
        /\ Len(p) \in Nat /\ 0 \in 0 .. Len(p) /\ Len(p) \in 0 .. Len(p) /\ Len(p) - Len(p) = 0
        /\ \A i \in Len(p) - 0 .. Len(p) : i \in 0 .. Len(p) /\ i + 1 .. Len(p) = {}
        /\ \A i \in 0 .. Len(p) : i \in 0 .. Len(a)
    BY DEF Starts, Bytes
  <1>2. \A i \in 0 .. Len(p) :
          /\ ~turn(i).returns => turn(i).at \in i + 1 .. Len(p)
          /\ f[i] = IF turn(i).returns THEN turn(i).at ELSE f[turn(i).at]
          /\ g[i] = IF whole(i).returns THEN whole(i).at ELSE g[whole(i).at]
          /\ turn(i) = Returns(Unknown) \/ whole(i) = turn(i)
    <2> SUFFICES ASSUME NEW i \in 0 .. Len(p)
                 PROVE  /\ ~turn(i).returns => turn(i).at \in i + 1 .. Len(p)
                        /\ f[i] = IF turn(i).returns THEN turn(i).at ELSE f[turn(i).at]
                        /\ g[i] = IF whole(i).returns THEN whole(i).at ELSE g[whole(i).at]
                        /\ turn(i) = Returns(Unknown) \/ whole(i) = turn(i)
      BY Zenon
    <2>1. ~turn(i).returns => turn(i).at \in i + 1 .. Len(p)
      BY <1>1, TurnFacts, Zenon
    <2>2. f[i] = IF turn(i).returns THEN turn(i).at ELSE f[turn(i).at]
      BY Zenon DEF Looping
    <2>3. g[i] = IF whole(i).returns THEN whole(i).at ELSE g[whole(i).at]
      BY <1>1, Zenon DEF Looping
    <2>4. turn(i) = Returns(Unknown) \/ whole(i) = turn(i)
      BY TurnWithin, Zenon
    <2> QED
      BY <2>1, <2>2, <2>3, <2>4, Zenon
  <1> HIDE DEF turn, whole
  <1>3. Returns(Unknown).returns /\ Returns(Unknown).at = Unknown
    BY DEF Returns
  <1>4. ASSUME NEW i \in 0 .. Len(p), \A k \in i + 1 .. Len(p) : Same(k) PROVE Same(i)
    <2>1. CASE turn(i) = Returns(Unknown)
      BY <1>2, <1>3, <2>1, Zenon
    <2>2. CASE whole(i) = turn(i) /\ turn(i).returns
      BY <1>2, <2>2, Zenon
    <2>3. CASE whole(i) = turn(i) /\ ~turn(i).returns
      BY <1>2, <1>4, <2>3, Zenon
    <2> QED
      BY <1>2, <2>1, <2>2, <2>3, Zenon
  <1> HIDE DEF Same
  <1>5. 0 \in X
    BY <1>1, <1>4, Zenon
  <1>6. ASSUME NEW j \in 1 .. Len(p), j - 1 \in X PROVE j \in X
    <2>1. ASSUME NEW i \in Len(p) - j .. Len(p)
          PROVE  i \in 0 .. Len(p) /\ \A k \in i + 1 .. Len(p) : k \in Len(p) - (j - 1) .. Len(p)
      BY <1>1
    <2>2. ASSUME NEW i \in Len(p) - j .. Len(p) PROVE Same(i)
      BY <1>4, <1>6, <2>1, Zenon
    <2>3. j \in 0 .. Len(p)
      BY <1>1
    <2> QED
      BY <2>2, <2>3, Zenon
  <1> HIDE DEF X
  <1>7. \A i \in 0 .. Len(p) : i \in X
    BY <1>1, <1>5, <1>6, Climb, Zenon
  <1> QED
    BY <1>1, <1>7, Zenon DEF X, Same

\* chunked_body_length gives a number, the same for the first bytes of a as for all
\* of a, unless they do not tell.
LEMMA ChunkedFacts ==
  ASSUME NEW s \in Bytes
  PROVE  \E f : Looping(s, 0, f) /\ chunked_body_length(s) = f[0]
  <1>1. \E f : Looping(s, 0, f)
    BY LoopingExists, Zenon
  <1> QED
    BY <1>1, Zenon DEF Looping, chunked_body_length

\* What chunked_body_length tells of the first bytes it tells of all of them.
LEMMA ChunkedWithin ==
  ASSUME NEW p, NEW a, Starts(p, a)
  PROVE  /\ chunked_body_length(p) \in Int /\ chunked_body_length(a) \in Int
         /\ chunked_body_length(p) # Unknown => chunked_body_length(a) = chunked_body_length(p)
  <1>1. p \in Bytes /\ a \in Bytes /\ 0 \in 0 .. Len(p) /\ 0 \in 0 .. Len(a)
    BY DEF Starts, Bytes
  <1>2. PICK f : Looping(p, 0, f) /\ chunked_body_length(p) = f[0]
    BY <1>1, ChunkedFacts, Zenon
  <1>3. PICK g : Looping(a, 0, g) /\ chunked_body_length(a) = g[0]
    BY <1>1, ChunkedFacts, Zenon
  <1>4. f[0] \in Int /\ g[0] \in Int
    BY <1>1, <1>2, <1>3, LoopingType, Zenon
  <1>5. f[0] # Unknown => g[0] = f[0]
    <2>1. Looping(p, 0, f) /\ Looping(a, 0, g)
      BY <1>2, <1>3, Zenon
    <2>2. \A offset \in 0 .. Len(p) : f[offset] # Unknown => g[offset] = f[offset]
      BY <2>1, LoopingWithin
    <2> QED
      BY <1>1, <2>2, Zenon
  <1> QED
    BY <1>2, <1>3, <1>4, <1>5, Zenon

\* The headers end at their first "End".
LEMMA HeaderFacts ==
  ASSUME NEW s \in Bytes
  PROVE  LET h == header_length(s)
         IN  \/ h = 0 /\ \A i \in 1 .. Len(s) : s[i] # "End"
             \/ h \in 1 .. Len(s) /\ s[h] = "End" /\ \A i \in 1 .. Len(s) : s[i] = "End" => h <= i
  <1> DEFINE ends == {i \in DOMAIN s : s[i] = "End"}
  <1>1. DOMAIN s = 1 .. Len(s) /\ ends \in SUBSET Nat
    BY DEF Bytes
  <1>2. header_length(s) = IF ends = {} THEN 0 ELSE Min(ends)
    BY Zenon DEF header_length
  <1>3. CASE ends = {}
    BY <1>1, <1>2, <1>3, Zenon
  <1>4. CASE ends # {}
    <2>1. Min(ends) \in ends /\ \A y \in ends : Min(ends) <= y
      <3> HIDE DEF ends
      <3> QED
        BY <1>1, <1>4, MinFacts, Zenon
    <2>2. header_length(s) \in ends /\ \A y \in ends : header_length(s) <= y
      BY <1>2, <1>4, <2>1, Zenon
    <2> QED
      BY <1>1, <2>2, Zenon
  <1> QED
    BY <1>3, <1>4, Zenon

\* Headers that end in the first bytes of a end there in a.
LEMMA HeaderWithin ==
  ASSUME NEW p, NEW a, Starts(p, a)
  PROVE  /\ header_length(p) \in 0 .. Len(p) /\ header_length(a) \in 0 .. Len(a)
         /\ header_length(p) # 0 => header_length(a) = header_length(p)
         /\ header_length(p) = 0 => header_length(a) = 0 \/ header_length(a) > Len(p)
  <1> DEFINE h == header_length(p)
             k == header_length(a)
  <1>1. /\ p \in Bytes /\ a \in Bytes /\ Len(p) \in Nat /\ Len(a) \in Nat /\ Len(p) <= Len(a)
        /\ \A i \in 1 .. Len(p) : p[i] = a[i]
    BY DEF Starts, Bytes
  <1>2. \/ h = 0 /\ \A i \in 1 .. Len(p) : p[i] # "End"
        \/ h \in 1 .. Len(p) /\ p[h] = "End" /\ \A i \in 1 .. Len(p) : p[i] = "End" => h <= i
    BY <1>1, HeaderFacts, Zenon
  <1>3. \/ k = 0 /\ \A i \in 1 .. Len(a) : a[i] # "End"
        \/ k \in 1 .. Len(a) /\ a[k] = "End" /\ \A i \in 1 .. Len(a) : a[i] = "End" => k <= i
    BY <1>1, HeaderFacts, Zenon
  <1> HIDE DEF h, k
  <1>4. h \in 0 .. Len(p) /\ k \in 0 .. Len(a)
    BY <1>1, <1>2, <1>3
  <1>5. ASSUME h # 0 PROVE k = h
    <2>1. h \in 1 .. Len(p) /\ a[h] = "End" /\ h \in 1 .. Len(a)
      BY <1>1, <1>2, <1>5
    <2>2. k \in 1 .. Len(a) /\ a[k] = "End" /\ k <= h
      BY <1>3, <2>1, Zenon
    <2>3. k \in 1 .. Len(p)
      BY <1>1, <2>1, <2>2
    <2>4. h <= k
      BY <1>1, <1>2, <1>5, <2>2, <2>3, Zenon
    <2> QED
      BY <1>1, <2>1, <2>2, <2>4
  <1>6. ASSUME h = 0, k # 0, ~(k > Len(p)) PROVE FALSE
    <2>1. k \in 1 .. Len(a) /\ a[k] = "End"
      BY <1>3, <1>6, Zenon
    <2>2. k \in 1 .. Len(p)
      BY <1>1, <1>6, <2>1
    <2>3. h \notin 1 .. Len(p)
      BY <1>1, <1>6
    <2> QED
      BY <1>1, <1>2, <2>1, <2>2, <2>3, Zenon
  <1> QED
    BY <1>4, <1>5, <1>6, Zenon DEF h, k

\* What is malformed stays so, and headers that are complete are not spoilt later.
LEMMA MalformedWithin ==
  ASSUME NEW p, NEW a, Starts(p, a)
  PROVE  /\ malformed(p) => malformed(a)
         /\ header_length(p) # 0 /\ malformed(a) => malformed(p)
  <1>1. /\ DOMAIN p = 1 .. Len(p) /\ DOMAIN a = 1 .. Len(a) /\ Len(p) \in Nat /\ Len(a) \in Nat /\ Len(p) <= Len(a)
        /\ \A i \in 1 .. Len(p) : p[i] = a[i] /\ i \in 1 .. Len(a)
    BY DEF Starts, Bytes
  <1> DEFINE h == header_length(p)
             k == header_length(a)
  <1>2. /\ h \in 0 .. Len(p) /\ k \in 0 .. Len(a)
        /\ h # 0 => k = h
        /\ h = 0 => k = 0 \/ k > Len(p)
    BY HeaderWithin, Zenon
  <1>3. ASSUME malformed(p) PROVE malformed(a)
    <2>1. PICK i \in 1 .. Len(p) : p[i] = "Malformed" /\ (h = 0 \/ i < h)
      BY <1>1, <1>3, Zenon DEF malformed
    <2> HIDE DEF h, k
    <2>2. k = 0 \/ i < k
      BY <1>1, <1>2, <2>1
    <2> QED
      BY <1>1, <2>1, <2>2, Zenon DEF malformed, k
  <1>4. ASSUME h # 0, malformed(a) PROVE malformed(p)
    <2>1. PICK i \in 1 .. Len(a) : a[i] = "Malformed" /\ (k = 0 \/ i < k)
      BY <1>1, <1>4, Zenon DEF malformed
    <2>2. k = h /\ k # 0
      BY <1>2, <1>4, Zenon
    <2>3. i < h
      BY <2>1, <2>2, Zenon
    <2> HIDE DEF h, k
    <2>4. i \in 1 .. Len(p)
      BY <1>1, <1>2, <2>3
    <2> QED
      BY <1>1, <2>1, <2>3, <2>4, Zenon DEF malformed, h
  <1> QED
    BY <1>3, <1>4, Zenon

\* The length of a response whose headers end at h, by their framing.
Framed(r, h, body) ==
  IF r.framing = "Chunked" THEN IF body < 0 THEN body ELSE h + body
  ELSE IF r.framing = "Length" THEN IF r.length > MAX_RESPONSE_BYTES THEN Invalid ELSE h + r.length
  ELSE IF r.framing = "BadLength" THEN Invalid
  ELSE Unknown

Body(s) == chunked_body_length(SubSeq(s, header_length(s) + 1, Len(s)))
TooLong(s) == (IF header_length(s) = 0 THEN Len(s) ELSE header_length(s)) > MAX_HEADER_BYTES

\* response_extent by the parts it looks at.
LEMMA ExtentForm ==
  ASSUME NEW r \in Responses, NEW s
  PROVE  response_extent(r, s) =
           IF malformed(s) \/ TooLong(s) THEN Invalid
           ELSE IF header_length(s) = 0 THEN Unknown
           ELSE Framed(r, header_length(s), Body(s))
  <1>1. r.framing \in {"Chunked", "Length", "BadLength", "Close"}
    BY ResponsesAssumption, Zenon
  <1> DEFINE h == header_length(s)
             b == Body(s)
             f == CASE r.framing = "Chunked"   -> IF b < 0 THEN b ELSE h + b
                    [] r.framing = "Length"    -> IF r.length > MAX_RESPONSE_BYTES THEN Invalid ELSE h + r.length
                    [] r.framing = "BadLength" -> Invalid
                    [] r.framing = "Close"     -> Unknown
  <1>2. response_extent(r, s) = IF malformed(s) \/ TooLong(s) THEN Invalid ELSE IF h = 0 THEN Unknown ELSE f
    BY Zenon DEF response_extent, TooLong, Body
  <1>3. f = Framed(r, h, b)
    <2> HIDE DEF h, b
    <2>1. CASE r.framing = "Chunked"
      BY <2>1 DEF Framed
    <2>2. CASE r.framing = "Length"
      BY <2>2 DEF Framed
    <2>3. CASE r.framing = "BadLength"
      BY <2>3 DEF Framed
    <2>4. CASE r.framing = "Close"
      BY <2>4 DEF Framed
    <2> QED
      BY <1>1, <2>1, <2>2, <2>3, <2>4, Zenon
  <1> HIDE DEF f
  <1> QED
    BY <1>2, <1>3, Zenon

\* An extent is a number, and the first bytes of a response tell no other than all
\* of them, in good order or not.
LEMMA ExtentWithin ==
  ASSUME NEW r \in Responses, NEW p, NEW a, Starts(p, a)
  PROVE  /\ response_extent(r, p) \in Int /\ response_extent(r, a) \in Int
         /\ response_extent(r, p) # Unknown => response_extent(r, a) = response_extent(r, p)
  <1> DEFINE h == header_length(p)
             k == header_length(a)
  <1>1. Len(p) \in Nat /\ Len(a) \in Nat /\ Len(p) <= Len(a)
    BY DEF Starts, Bytes
  <1>2. /\ h \in 0 .. Len(p) /\ k \in 0 .. Len(a)
        /\ h # 0 => k = h
        /\ h = 0 => k = 0 \/ k > Len(p)
    BY HeaderWithin, Zenon
  <1>3. Body(p) \in Int /\ Body(a) \in Int /\ (h # 0 /\ Body(p) # Unknown => Body(a) = Body(p))
    <2>1. Starts(p, p) /\ Starts(a, a)
      <3>1. Len(p) <= Len(p) /\ Len(a) <= Len(a)
        BY <1>1
      <3> QED
        BY <3>1, Zenon DEF Starts
    <2>2. Body(p) \in Int
      BY <1>2, <2>1, StartsFrom, ChunkedWithin, Zenon DEF Body
    <2>3. Body(a) \in Int
      BY <1>2, <2>1, StartsFrom, ChunkedWithin, Zenon DEF Body
    <2>4. ASSUME h # 0, Body(p) # Unknown PROVE Body(a) = Body(p)
      <3>1. k = h
        BY <1>2, <2>4, Zenon
      <3>2. Starts(SubSeq(p, h + 1, Len(p)), SubSeq(a, h + 1, Len(a)))
        BY <1>2, StartsFrom, Zenon
      <3>3. /\ Body(p) = chunked_body_length(SubSeq(p, h + 1, Len(p)))
            /\ Body(a) = chunked_body_length(SubSeq(a, h + 1, Len(a)))
        BY <3>1, Zenon DEF Body
      <3> HIDE DEF h
      <3> QED
        BY <2>4, <3>2, <3>3, ChunkedWithin, Zenon
    <2> QED
      BY <2>2, <2>3, <2>4, Zenon
  <1>4. r.length \in Nat
    BY ResponsesAssumption, Zenon
  <1>5. ASSUME NEW s, NEW n \in Int, header_length(s) = n, Body(s) \in Int PROVE response_extent(r, s) \in Int
    <2>1. ASSUME NEW b \in Int, NEW z \in Nat, z = r.length PROVE Framed(r, n, b) \in Int
      BY <2>1 DEF Framed, Invalid, Unknown
    <2>2. Framed(r, n, Body(s)) \in Int
      BY <1>4, <1>5, <2>1, Zenon
    <2>3. Invalid \in Int /\ Unknown \in Int
      BY DEF Invalid, Unknown
    <2> QED
      BY <1>5, <2>2, <2>3, ExtentForm, Zenon
  <1>6. h \in Int /\ k \in Int
    BY <1>1, <1>2
  <1>7. response_extent(r, p) \in Int /\ response_extent(r, a) \in Int
    BY <1>3, <1>5, <1>6, Zenon
  <1>8. MAX_HEADER_BYTES \in Nat
    BY SetupAssumption, Zenon
  <1>9. TooLong(p) => TooLong(a)
    <2>1. CASE h = 0
      <3>1. TooLong(p) <=> Len(p) > MAX_HEADER_BYTES
        BY <2>1, Zenon DEF TooLong
      <3>2. TooLong(a) <=> (IF k = 0 THEN Len(a) ELSE k) > MAX_HEADER_BYTES
        BY Zenon DEF TooLong
      <3>3. k = 0 \/ k > Len(p)
        BY <1>2, <2>1, Zenon
      <3> HIDE DEF k
      <3> QED
        BY <1>1, <1>6, <1>8, <3>1, <3>2, <3>3
    <2>2. CASE h # 0
      BY <1>2, <2>2, Zenon DEF TooLong
    <2> QED
      BY <2>1, <2>2, Zenon
  <1>10. ASSUME response_extent(r, p) # Unknown PROVE response_extent(r, a) = response_extent(r, p)
    <2>1. CASE malformed(p) \/ TooLong(p)
      BY <1>9, <2>1, MalformedWithin, ExtentForm, Zenon
    <2>2. CASE ~malformed(p) /\ ~TooLong(p)
      <3>1. h # 0
        BY <1>10, <2>2, ExtentForm, Zenon
      <3>2. k = h /\ ~malformed(a) /\ ~TooLong(a)
        BY <1>2, <2>2, <3>1, MalformedWithin, Zenon DEF TooLong
      <3>3. response_extent(r, p) = Framed(r, h, Body(p)) /\ response_extent(r, a) = Framed(r, h, Body(a))
        BY <2>2, <3>1, <3>2, ExtentForm, Zenon
      <3>4. CASE r.framing = "Chunked"
        <4>1. Body(p) # Unknown
          <5>1. Unknown < 0
            BY DEF Unknown
          <5> QED
            BY <1>10, <3>3, <3>4, <5>1, Zenon DEF Framed
        <4>2. Body(a) = Body(p)
          BY <1>3, <3>1, <4>1, Zenon
        <4> QED
          BY <3>3, <4>2, Zenon
      <3>5. CASE r.framing # "Chunked"
        <4>1. \A b, c : Framed(r, h, b) = Framed(r, h, c)
          BY <3>5, Zenon DEF Framed
        <4> QED
          BY <3>3, <4>1, Zenon
      <3> QED
        BY <3>4, <3>5, Zenon
    <2> QED
      BY <2>1, <2>2, Zenon
  <1> QED
    BY <1>7, <1>10, Zenon

-----------------------------------------------------------------------------
\* What a query returns that reads all of the response at once.
AtOnce(r) ==
  LET all == r.bytes
      end == IF complete(r, all) THEN response_extent(r, all) ELSE Len(all)
  IN  IF response_extent(r, all) = Invalid THEN Failed ELSE parse_http_response(r, SubSeq(all, 1, end))

\* What has been read is the first bytes of the response, and the query goes on.
Cut(r, read) == Len(read) \in 0 .. Len(r.bytes) /\ read = SubSeq(r.bytes, 1, Len(read))
Unfinished(r, read) == Cut(r, read) /\ response_extent(r, read) # Invalid /\ ~complete(r, read)

\* The first bytes of a response are a cut of it, and start it.
LEMMA CutFacts ==
  ASSUME NEW r \in Responses
  PROVE  /\ r.bytes \in Bytes /\ Len(r.bytes) \in Nat
         /\ \A n \in 0 .. Len(r.bytes) : /\ Len(SubSeq(r.bytes, 1, n)) = n
                                         /\ Cut(r, SubSeq(r.bytes, 1, n))
         /\ \A read : Cut(r, read) => Starts(read, r.bytes)
  <1>1. r.bytes \in Seq(Byte)
    BY ResponsesAssumption, Zenon
  <1>2. ASSUME NEW n \in 0 .. Len(r.bytes)
        PROVE  /\ SubSeq(r.bytes, 1, n) \in Seq(Byte) /\ Len(SubSeq(r.bytes, 1, n)) = n
               /\ \A i \in 1 .. n : SubSeq(r.bytes, 1, n)[i] = r.bytes[i]
               /\ n <= Len(r.bytes)
    BY <1>1
  <1>3. Len(r.bytes) \in Nat
    BY <1>1
  <1>4. ASSUME NEW read, Cut(r, read) PROVE Starts(read, r.bytes)
    BY <1>1, <1>2, <1>4, Zenon DEF Cut, Starts, Bytes
  <1> QED
    BY <1>1, <1>2, <1>3, <1>4, Zenon DEF Cut, Bytes

\* A cut that fails, fails the whole response.
LEMMA CutFails ==
  ASSUME NEW r \in Responses, NEW read, Cut(r, read), response_extent(r, read) = Invalid
  PROVE  AtOnce(r) = Failed
  <1>1. Starts(read, r.bytes)
    BY CutFacts, Zenon
  <1>2. Invalid # Unknown
    BY DEF Invalid, Unknown
  <1>3. response_extent(r, read) # Unknown
    BY <1>2, Zenon
  <1>4. response_extent(r, r.bytes) = Invalid
    BY <1>1, <1>3, ExtentWithin, Zenon
  <1> QED
    BY <1>4, Zenon DEF AtOnce

\* A cut that is complete gives what the whole response gives.
LEMMA CutCompletes ==
  ASSUME NEW r \in Responses, NEW read, Cut(r, read), complete(r, read)
  PROVE  AtOnce(r) = parse_http_response(r, SubSeq(read, 1, response_extent(r, read)))
  <1> DEFINE e == response_extent(r, read)
  <1>1. Starts(read, r.bytes) /\ Len(read) \in Nat /\ Len(r.bytes) \in Nat /\ Len(read) <= Len(r.bytes)
    <2>1. Len(r.bytes) \in Nat /\ Len(read) \in 0 .. Len(r.bytes)
      BY CutFacts, Zenon DEF Cut
    <2> QED
      BY <2>1, CutFacts
  <1>2. e \in Int /\ (e # Unknown => response_extent(r, r.bytes) = e)
    BY <1>1, ExtentWithin, Zenon
  <1>3. e >= 0 /\ Len(read) >= e
    BY Zenon DEF complete
  <1> HIDE DEF e
  <1>4. e # Unknown /\ e # Invalid /\ e <= Len(read) /\ Len(r.bytes) >= e /\ 1 \in Nat \ {0}
    BY <1>1, <1>2, <1>3 DEF Unknown, Invalid
  <1>5. response_extent(r, r.bytes) = e
    BY <1>2, <1>4, Zenon
  <1>6. complete(r, r.bytes)
    BY <1>3, <1>4, <1>5, Zenon DEF complete
  <1>7. SubSeq(read, 1, e) = SubSeq(r.bytes, 1, e)
    BY <1>1, <1>2, <1>4, SameWithin, Zenon
  <1>8. AtOnce(r) = parse_http_response(r, SubSeq(r.bytes, 1, e))
    BY <1>4, <1>5, <1>6, Zenon DEF AtOnce
  <1> QED
    BY <1>7, <1>8, Zenon DEF e

\* So does the end of the stream, when the response had no end of its own.
LEMMA CutEnds ==
  ASSUME NEW r \in Responses, NEW read, Unfinished(r, read), Len(read) = Len(r.bytes)
  PROVE  AtOnce(r) = parse_http_response(r, read)
  <1>1. read = SubSeq(r.bytes, 1, Len(r.bytes))
    BY Zenon DEF Unfinished, Cut
  <1>2. r.bytes = SubSeq(r.bytes, 1, Len(r.bytes))
    BY CutFacts DEF Bytes
  <1>3. response_extent(r, r.bytes) # Invalid /\ ~complete(r, r.bytes)
    BY <1>1, <1>2, Zenon DEF Unfinished
  <1>4. AtOnce(r) = parse_http_response(r, SubSeq(r.bytes, 1, Len(r.bytes)))
    BY <1>3, Zenon DEF AtOnce
  <1> QED
    BY <1>1, <1>4, Zenon

\* A response in good order is understood at once, and a cut that has all of it is
\* not unfinished.
LEMMA WholeFacts ==
  ASSUME NEW r \in Responses, r.whole > 0
  PROVE  /\ AtOnce(r) = r.means
         /\ \A read : Unfinished(r, read) /\ r.framing # "Close" => Len(read) < r.whole
  <1> DEFINE w == SubSeq(r.bytes, 1, r.whole)
  <1>1. /\ parse_http_response(r, w) = r.means
        /\ IF r.framing = "Close" THEN w = r.bytes /\ response_extent(r, w) = Unknown
           ELSE response_extent(r, w) = r.whole
    BY WholeAssumption, Zenon
  <1>2. r.whole \in 0 .. Len(r.bytes) /\ r.bytes \in Bytes /\ Len(r.bytes) \in Nat
    BY ResponsesAssumption, CutFacts, Zenon
  <1>3. Len(w) = r.whole /\ Cut(r, w)
    BY <1>2, CutFacts, Zenon
  <1>4. CASE r.framing = "Close"
    <2>1. w = r.bytes /\ response_extent(r, r.bytes) = Unknown
      BY <1>1, <1>4, Zenon
    <2>2. ~(Unknown >= 0) /\ Unknown # Invalid
      BY DEF Unknown, Invalid
    <2>3. r.bytes = SubSeq(r.bytes, 1, Len(r.bytes))
      BY <1>2 DEF Bytes
    <2>4. ~complete(r, r.bytes) /\ response_extent(r, r.bytes) # Invalid
      BY <2>1, <2>2, Zenon DEF complete
    <2>5. AtOnce(r) = parse_http_response(r, SubSeq(r.bytes, 1, Len(r.bytes)))
      BY <2>4, Zenon DEF AtOnce
    <2> QED
      BY <1>1, <1>4, <2>1, <2>3, <2>5, Zenon
  <1>5. CASE r.framing # "Close"
    <2>1. response_extent(r, w) = r.whole
      BY <1>1, <1>5, Zenon
    <2>2. r.whole >= 0 /\ r.whole <= r.whole /\ r.whole >= r.whole /\ r.whole \in Int /\ r.whole # Unknown /\ 1 \in Nat \ {0}
      BY <1>2 DEF Unknown
    <2>3. complete(r, w)
      BY <1>3, <2>1, <2>2, Zenon DEF complete
    <2>4. SubSeq(w, 1, r.whole) = w
      <3>1. Starts(w, r.bytes) /\ r.whole <= Len(w)
        BY <1>3, <2>2, CutFacts, Zenon
      <3>2. ASSUME NEW v, Starts(v, r.bytes), r.whole <= Len(v) PROVE SubSeq(v, 1, r.whole) = SubSeq(r.bytes, 1, r.whole)
        BY <2>2, <3>2, SameWithin, Zenon
      <3> QED
        BY <3>1, <3>2, Zenon
    <2>5. AtOnce(r) = r.means
      BY <1>1, <1>3, <2>1, <2>3, <2>4, CutCompletes, Zenon
    <2>6. ASSUME NEW read, Unfinished(r, read), ~(Len(read) < r.whole) PROVE FALSE
      <3>1. Starts(read, r.bytes) /\ Starts(w, r.bytes) /\ Len(read) \in 0 .. Len(r.bytes)
        BY <1>3, <2>6, CutFacts, Zenon DEF Unfinished, Cut
      <3>2. r.whole <= Len(read) /\ \A i \in 1 .. r.whole : i \in 1 .. Len(read)
        BY <1>2, <2>6, <3>1
      <3>3. Starts(w, read)
        BY <1>3, <3>1, <3>2, Zenon DEF Starts
      <3>4. response_extent(r, read) = r.whole
        BY <2>1, <2>2, <3>3, ExtentWithin, Zenon
      <3>5. Len(read) >= r.whole
        BY <1>2, <3>1, <3>2
      <3> QED
        BY <2>2, <2>6, <3>4, <3>5, Zenon DEF Unfinished, complete
    <2> QED
      BY <2>5, <2>6, Zenon
  <1> QED
    BY <1>4, <1>5, Zenon

\* Nothing read yet tells nothing.
LEMMA NothingRead ==
  ASSUME NEW r \in Responses
  PROVE  Unfinished(r, << >>)
  <1>1. Len(<< >>) = 0 /\ DOMAIN << >> = {} /\ Unknown # Invalid /\ ~(Unknown >= 0) /\ ~(0 > MAX_HEADER_BYTES)
    BY SetupAssumption DEF Unknown, Invalid
  <1>2. header_length(<< >>) = 0 /\ ~malformed(<< >>)
    BY <1>1, Zenon DEF header_length, malformed
  <1>3. response_extent(r, << >>) = Unknown
    BY <1>1, <1>2, Zenon DEF response_extent
  <1>4. r.bytes \in Seq(Byte)
    BY CutFacts, Zenon DEF Bytes
  <1>5. Cut(r, << >>)
    BY <1>4 DEF Cut
  <1> QED
    BY <1>1, <1>3, <1>5, Zenon DEF Unfinished, complete

\* What is read of a response is its first bytes, which do not end it yet; and what
\* the query returns of one that is not too long is what one read of it all gives.
QueryInv ==
  /\ query \in {"None", "Connecting"} => response = << >>
  /\ query = "Reading" => server \in Responses /\ Unfinished(server, response)
  /\ Answered => /\ server \in Responses
                 /\ Len(server.bytes) <= MAX_HEADER_BYTES + MAX_RESPONSE_BYTES => info = AtOnce(server)

\* A step of the query keeps it (read_http_response).
LEMMA QueryStep ==
  ASSUME QueryInv, QueryNext
  PROVE  QueryInv'
  <1>1. ASSUME query' = "Done", info'.result \in {"TimedOut", "IoError"} PROVE QueryInv'
    BY <1>1 DEF QueryInv, Answered
  <1>2. ASSUME query' = "Done", server' = server, server \in Responses,
               Len(server.bytes) <= MAX_HEADER_BYTES + MAX_RESPONSE_BYTES => info' = AtOnce(server)
        PROVE  QueryInv'
    <2>1. query' \notin {"None", "Connecting", "Reading"}
      BY <1>2
    <2> QED
      BY <1>2, <2>1, Zenon DEF QueryInv
  <1>3. ASSUME query' = "Reading", server' \in Responses, Unfinished(server', response') PROVE QueryInv'
    BY <1>3 DEF QueryInv, Answered
  <1>4. ASSUME NEW r \in Responses, Requested(r) PROVE QueryInv'
    <2>1. response' = << >> /\ server' = r /\ query' = "Reading"
      BY <1>4, Zenon DEF Requested, QueryInv
    <2>2. Unfinished(server', response')
      BY <2>1, NothingRead, Zenon
    <2> QED
      BY <1>3, <1>4, <2>1, <2>2, Zenon
  <1>5. CASE RequestFails
    BY <1>1, <1>5 DEF RequestFails, Returned, Failed
  <1>6. ASSUME NEW n \in 1 .. READ_SIZE, ReadResponse(n) PROVE QueryInv'
    <2> DEFINE m     == Len(response) + n
               bytes == SubSeq(server.bytes, 1, m)
               limit == MAX_HEADER_BYTES + MAX_RESPONSE_BYTES
               long  == Len(bytes) > limit
    <2>1. query = "Reading" /\ m <= Len(server.bytes) /\ server' = server /\ server \in Responses /\ Unfinished(server, response)
      BY <1>6, Zenon DEF ReadResponse, QueryInv
    <2>2. \/ (long \/ response_extent(server, bytes) = Invalid) /\ Returned(Failed)
          \/ ~long /\ complete(server, bytes) /\ response' = SubSeq(bytes, 1, response_extent(server, bytes))
             /\ Returned(parse_http_response(server, response'))
          \/ response_extent(server, bytes) # Invalid /\ ~complete(server, bytes) /\ response' = bytes /\ query' = query
      BY <1>6, Zenon DEF ReadResponse
    <2>3. Len(response) \in 0 .. Len(server.bytes) /\ Len(server.bytes) \in Nat
      BY <2>1, CutFacts, Zenon DEF Unfinished, Cut
    <2>4. m \in 0 .. Len(server.bytes)
      BY <2>1, <2>3
    <2> HIDE DEF m
    <2>5. Cut(server, bytes) /\ Len(bytes) = m
      BY <2>1, <2>4, CutFacts, Zenon
    <2>6. ~long \/ ~(Len(server.bytes) <= limit)
      BY <2>3, <2>4, <2>5, SetupAssumption
    <2> HIDE DEF bytes, limit
    <2>7. CASE (long \/ response_extent(server, bytes) = Invalid) /\ Returned(Failed)
      <3>1. Len(server.bytes) <= limit => info' = AtOnce(server)
        BY <2>1, <2>5, <2>6, <2>7, CutFails, Zenon DEF Returned
      <3> QED
        BY <1>2, <2>1, <2>7, <3>1, Zenon DEF Returned, limit
    <2>8. CASE ~long /\ complete(server, bytes) /\ response' = SubSeq(bytes, 1, response_extent(server, bytes))
               /\ Returned(parse_http_response(server, response'))
      <3>1. info' = AtOnce(server)
        BY <2>1, <2>5, <2>8, CutCompletes, Zenon DEF Returned
      <3> QED
        BY <1>2, <2>1, <2>8, <3>1, Zenon DEF Returned
    <2>9. CASE response_extent(server, bytes) # Invalid /\ ~complete(server, bytes) /\ response' = bytes /\ query' = query
      <3>1. Unfinished(server', response')
        BY <2>1, <2>5, <2>9, Zenon DEF Unfinished
      <3> QED
        BY <1>3, <2>1, <2>9, <3>1, Zenon
    <2> QED
      BY <2>2, <2>7, <2>8, <2>9, Zenon
  <1>7. CASE ReadEnds
    <2>1. query = "Reading" /\ server' = server /\ server \in Responses /\ Unfinished(server, response)
      BY <1>7, Zenon DEF ReadEnds, QueryInv
    <2>2. CASE Len(response) = Len(server.bytes) /\ Returned(parse_http_response(server, response))
      <3>1. info' = AtOnce(server)
        BY <2>1, <2>2, CutEnds, Zenon DEF Returned
      <3> QED
        BY <1>2, <2>1, <2>2, <3>1, Zenon DEF Returned
    <2>3. CASE Returned([Failed EXCEPT !.result = "IoError"])
      BY <1>1, <2>3 DEF Returned, Failed
    <2> QED
      BY <1>7, <2>2, <2>3, Zenon DEF ReadEnds
  <1>8. CASE QueryTimesOut
    BY <1>1, <1>8 DEF QueryTimesOut, Returned, Failed
  <1> QED
    BY <1>4, <1>5, <1>6, <1>7, <1>8, Zenon DEF QueryNext

\* So does every step of the lookup: nothing else touches the query.
LEMMA LookupKeepsQuery ==
  ASSUME QueryInv, [LookupNext]_lookup_vars
  PROVE  QueryInv'
  <1>1. ASSUME UNCHANGED query_vars PROVE QueryInv'
    BY <1>1, Zenon DEF query_vars, QueryInv, Answered
  <1>2. CASE Discover(DiscoveryNext)
    BY <1>1, <1>2, Zenon DEF Discover
  <1>3. ASSUME NEW endpoint, Select(endpoint) PROVE QueryInv'
    BY <1>1, <1>3, Zenon DEF Select
  <1>4. CASE Link(LinkNext)
    BY <1>1, <1>4, Zenon DEF Link
  <1>5. CASE Disconnect
    BY <1>1, <1>5, Zenon DEF Disconnect
  <1>6. CASE get_setup_device_info
    BY <1>6 DEF get_setup_device_info, query_device_info, QueryInv, Answered
  <1>7. CASE Setup(QueryNext)
    BY <1>7, QueryStep, Zenon DEF Setup
  <1>8. CASE Tick
    BY <1>1, <1>8, Zenon DEF Tick
  <1>9. CASE UNCHANGED lookup_vars
    BY <1>1, <1>9, Zenon DEF lookup_vars
  <1> QED
    BY <1>2, <1>3, <1>4, <1>5, <1>6, <1>7, <1>8, <1>9, Zenon DEF LookupNext

\* A query returns what one read of all the response gives (query_device_info_inner
\* and read_http_response), through the whole of the lookup.
THEOREM QueryInductive == LookupSpec => []QueryInv
  <1>1. LookupInit => QueryInv
    BY DEF LookupInit, QueryInit, QueryInv, Answered
  <1> QED
    BY <1>1, LookupKeepsQuery, PTL DEF LookupSpec

\* However the bytes of a response are cut into reads, read_http_response and
\* parse_http_response return what they mean; a response in good order is understood
\* whatever follows it, and as soon as it is there when its headers tell its length.
THEOREM ResponsesSafe == LookupSpec => []ResponsesAreUnderstood
  <1>1. ASSUME QueryInv PROVE ResponsesAreUnderstood
    <2>1. ASSUME Answered, Len(server.bytes) <= MAX_HEADER_BYTES + MAX_RESPONSE_BYTES PROVE info = AtOnce(server)
      BY <1>1, <2>1, Zenon DEF QueryInv
    <2>2. ASSUME Answered, server.whole > 0 PROVE info = server.means
      <3>1. server \in Responses
        BY <1>1, <2>2, Zenon DEF QueryInv
      <3>2. Len(server.bytes) <= MAX_HEADER_BYTES + MAX_RESPONSE_BYTES
        BY <2>2, <3>1, WholeAssumption, Zenon
      <3> QED
        BY <2>1, <2>2, <3>1, <3>2, WholeFacts, Zenon
    <2>3. ASSUME query = "Reading", server.whole > 0, server.framing # "Close" PROVE Len(response) < server.whole
      BY <1>1, <2>3, WholeFacts, Zenon DEF QueryInv
    <2> QED
      BY <2>1, <2>2, <2>3, Zenon DEF ResponsesAreUnderstood, AtOnce
  <1> QED
    BY <1>1, QueryInductive, PTL
-----------------------------------------------------------------------------
(* Time.                                                                      *)

LEMMA StepsFacts ==
  /\ Range(Steps) = {"Connecting", "Handshaking", "Tls", "Challenged", "Authenticated"}
  /\ Len(Steps) = 5
  BY DEF Steps, Range

\* One call at a time: discover, then connect, then the query.
CallsInOrder ==
  /\ discovery # "Done" => link = "Idle" /\ query = "None" /\ selected = << >>
  /\ link = "Kept" => selected = << >>
  /\ query # "None" => link = "Kept"
  /\ query \in {"None", "Connecting", "Reading", "Done"}

\* The time a call has taken and the time its timeout has left are together no more
\* than all it may take: for connect, one timeout for each step it has come to.
TimeInv ==
  /\ remaining \in Nat /\ elapsed \in Nat
  /\ discovery = "Browsing" => elapsed + remaining = discovery_timeout
  /\ discovery = "Found" => elapsed = discovery_timeout
  /\ link = "Connecting" => elapsed + remaining <= REQUEST_TIMEOUT
  /\ link = "Handshaking" => elapsed + remaining <= 2 * REQUEST_TIMEOUT
  /\ link = "Tls" => elapsed + remaining <= 3 * REQUEST_TIMEOUT
  /\ link = "Challenged" => elapsed + remaining <= 4 * REQUEST_TIMEOUT
  /\ link = "Authenticated" => elapsed + remaining <= 5 * REQUEST_TIMEOUT
  /\ link = "Open" => elapsed <= 5 * REQUEST_TIMEOUT
  /\ query \in {"Connecting", "Reading"} => elapsed + remaining = SETUP_TIMEOUT
  /\ query = "Done" => elapsed <= SETUP_TIMEOUT

\* An event, the deadline and an error take no time (discover).
LEMMA DiscoverTime ==
  ASSUME CallsInOrder, TimeInv, Discover(DiscoveryNext)
  PROVE  CallsInOrder' /\ TimeInv'
  <1>1. /\ discovery = "Browsing" /\ UNCHANGED <<remaining, elapsed>>
        /\ discovery' \in {"Browsing", "Failed"} \/ (discovery' = "Found" /\ remaining = 0)
    <2>1. ASSUME NEW event, Announce(event)
          PROVE  /\ discovery = "Browsing" /\ UNCHANGED <<remaining, elapsed>>
                 /\ discovery' \in {"Browsing", "Failed"} \/ (discovery' = "Found" /\ remaining = 0)
      BY <2>1 DEF Announce, clock
    <2>2. CASE \E service \in Services : ServiceResolved(service) \/ ServiceRemoved(service.instance)
      BY <2>1, <2>2, Zenon DEF ServiceResolved, ServiceRemoved
    <2>3. CASE Deadline \/ ReceiveFails
      BY <2>3 DEF Deadline, ReceiveFails, clock
    <2> QED
      BY <2>2, <2>3, Zenon DEF Discover, DiscoveryNext
  <1>2. UNCHANGED <<link, query, selected>>
    BY Zenon DEF Discover, link_vars, query_vars
  <1> QED
    BY <1>1, <1>2 DEF CallsInOrder, TimeInv

\* Each step of connect_address_inner and authenticate_receiver gets its timeout
\* when the one before it is done.
LEMMA LinkTime ==
  ASSUME CallsInOrder, TimeInv, Link(LinkNext)
  PROVE  CallsInOrder' /\ TimeInv'
  <1>1. UNCHANGED <<discovery, query, selected>> /\ selected # << >>
    BY Zenon DEF Link, discovery_vars, query_vars
  <1>2. discovery = "Done" /\ query = "None"
    BY <1>1, Zenon DEF CallsInOrder
  <1>3. link' # "Kept" => CallsInOrder'
    BY <1>1, <1>2 DEF CallsInOrder
  <1>4. REQUEST_TIMEOUT \in Nat
    BY AuthAssumption
  <1>5. ASSUME link' = "Idle", UNCHANGED <<remaining, elapsed>> PROVE CallsInOrder' /\ TimeInv'
    BY <1>1, <1>2, <1>3, <1>5 DEF TimeInv
  <1>6. CASE Connect
    BY <1>1, <1>2, <1>3, <1>4, <1>6 DEF Connect, Call, TimeInv
  <1>7. CASE TcpConnected
    BY <1>1, <1>2, <1>3, <1>4, <1>7 DEF TcpConnected, timeout, TimeInv
  <1>8. ASSUME NEW der, Handshake(der) PROVE CallsInOrder' /\ TimeInv'
    BY <1>1, <1>2, <1>3, <1>4, <1>8 DEF Handshake, timeout, TimeInv
  <1>9. CASE SendChallenge
    BY <1>1, <1>2, <1>3, <1>4, <1>9 DEF SendChallenge, timeout, TimeInv
  <1>10. ASSUME NEW reply, ReceiveReply(reply) PROVE CallsInOrder' /\ TimeInv'
    <2>1. \/ link = "Challenged" /\ link' = "Authenticated" /\ timeout(REQUEST_TIMEOUT)
          \/ link' = "Idle" /\ UNCHANGED <<remaining, elapsed>>
      BY <1>10, Zenon DEF ReceiveReply, Dropped, clock
    <2>2. CASE link = "Challenged" /\ link' = "Authenticated" /\ timeout(REQUEST_TIMEOUT)
      BY <1>1, <1>2, <1>3, <1>4, <2>2 DEF timeout, TimeInv
    <2> QED
      BY <1>5, <2>1, <2>2, Zenon
  <1>11. CASE SendConnect
    BY <1>1, <1>2, <1>3, <1>4, <1>11 DEF SendConnect, clock, TimeInv
  <1>12. CASE ConnectFails \/ AuthenticationFails
    BY <1>5, <1>12, Zenon DEF ConnectFails, AuthenticationFails, Dropped, clock
  <1> QED
    BY <1>6, <1>7, <1>8, <1>9, <1>10, <1>11, <1>12, Zenon DEF Link, LinkNext

\* No step of query_device_info restarts its timeout.
LEMMA QueryTime ==
  ASSUME CallsInOrder, TimeInv, Setup(QueryNext)
  PROVE  CallsInOrder' /\ TimeInv'
  <1>1. /\ query \in {"Connecting", "Reading"} /\ query' \in {"Connecting", "Reading", "Done"}
        /\ UNCHANGED <<remaining, elapsed>>
    <2>1. ASSUME NEW r, Requested(r) PROVE query = "Connecting" /\ query' = "Reading" /\ UNCHANGED <<remaining, elapsed>>
      BY <2>1, Zenon DEF Requested, clock
    <2>2. ASSUME NEW n, ReadResponse(n) PROVE query = "Reading" /\ query' \in {query, "Done"} /\ UNCHANGED <<remaining, elapsed>>
      <3>1. query = "Reading" /\ UNCHANGED <<remaining, elapsed>>
        BY <2>2, Zenon DEF ReadResponse, clock
      <3>2. query' = "Done" \/ query' = query
        BY <2>2, Zenon DEF ReadResponse, Returned
      <3> QED
        BY <3>1, <3>2
    <2>3. CASE ReadEnds \/ RequestFails \/ QueryTimesOut
      BY <2>3 DEF ReadEnds, RequestFails, QueryTimesOut, Returned, clock
    <2> QED
      BY <2>1, <2>2, <2>3 DEF Setup, QueryNext
  <1>2. UNCHANGED <<discovery, link, selected>>
    BY Zenon DEF Setup, discovery_vars, link_vars
  <1>3. link = "Kept" /\ discovery = "Done"
    BY <1>1 DEF CallsInOrder
  <1> QED
    BY <1>1, <1>2, <1>3 DEF CallsInOrder, TimeInv

\* Every step of a lookup keeps the time of the call under way.
LEMMA LookupKeepsTime ==
  ASSUME CallsInOrder, TimeInv, [LookupNext]_lookup_vars
  PROVE  CallsInOrder' /\ TimeInv'
  <1>1. ASSUME NEW endpoint, Select(endpoint) PROVE CallsInOrder' /\ TimeInv'
    <2>1. /\ discovery = "Found" /\ discovery' = "Done"
          /\ UNCHANGED <<link, query, remaining, elapsed>>
      BY <1>1, Zenon DEF Select, link_vars, query_vars, clock
    <2>2. link = "Idle" /\ query = "None"
      BY <2>1 DEF CallsInOrder
    <2> QED
      BY <2>1, <2>2 DEF CallsInOrder, TimeInv
  <1>2. CASE Disconnect
    <2>1. /\ link = "Open" /\ link' = "Idle"
          /\ UNCHANGED <<discovery, query, selected, remaining, elapsed>>
      BY <1>2, Zenon DEF Disconnect, Dropped, discovery_vars, query_vars, clock
    <2> QED
      BY <2>1 DEF CallsInOrder, TimeInv
  <1>3. CASE get_setup_device_info
    <2>1. /\ link = "Open" /\ link' = "Kept" /\ selected' = << >> /\ query' = "Connecting"
          /\ remaining' = SETUP_TIMEOUT /\ elapsed' = 0 /\ discovery' = discovery
      BY <1>3, Zenon DEF get_setup_device_info, query_device_info, Call, discovery_vars
    <2>2. discovery = "Done" /\ SETUP_TIMEOUT \in Nat
      BY <2>1, SetupAssumption DEF CallsInOrder
    <2> QED
      BY <2>1, <2>2 DEF CallsInOrder, TimeInv
  <1>4. CASE Tick
    <2>1. /\ remaining > 0 /\ remaining' = remaining - 1 /\ elapsed' = elapsed + 1
          /\ UNCHANGED <<discovery, link, query, selected>>
      BY <1>4, Zenon DEF Tick, Passes, discovery_vars, link_vars, query_vars
    <2>2. discovery = "Browsing" \/ link \in Range(Steps) \/ query \in {"Connecting", "Reading"}
      BY <1>4, Zenon DEF Tick
    <2> QED
      BY <2>1, <2>2, StepsFacts DEF CallsInOrder, TimeInv
  <1>5. CASE UNCHANGED lookup_vars
    BY <1>5, Zenon DEF lookup_vars, discovery_vars, link_vars, query_vars, clock, CallsInOrder, TimeInv
  <1> QED
    BY <1>1, <1>2, <1>3, <1>4, <1>5, DiscoverTime, LinkTime, QueryTime, Zenon DEF LookupNext

\* discover, connect and get_setup_device_info end in the time their timeouts give
\* them, for any timeouts and any behaviour of the network.
THEOREM TimelySafe == LookupSpec => []LookupIsTimely
  <1>1. LookupInit => CallsInOrder /\ TimeInv
    BY DiscoveryAssumption DEF LookupInit, DiscoveryInit, LinkInit, QueryInit, CallsInOrder, TimeInv
  <1>2. CallsInOrder /\ TimeInv => LookupIsTimely
    BY StepsFacts, AuthAssumption DEF CallsInOrder, TimeInv, LookupIsTimely
  <1> QED
    BY <1>1, <1>2, LookupKeepsTime, PTL DEF LookupSpec
=============================================================================
