---------------------------- MODULE ReceiverAuth ----------------------------
(* Connecting to a Cast receiver: connect_address_inner and                   *)
(* authenticate_receiver (src/src/control/mod.rs) and the verification of the *)
(* receiver's reply (src/src/control/auth.rs).                                *)
(*                                                                            *)
(* Cryptography is external and ideal: a key stands for itself and its hash,  *)
(* and a signature is the key and what was signed.  The receiver presents any *)
(* TLS certificate and replies with any message, one it has sent before       *)
(* included.  Times are in days and the clock stands still while one reply is *)
(* verified.                                                                  *)
EXTENDS Sequences, FiniteSetsExt, Timeouts

CONSTANTS
  Certificates,   \* by name: [issuer, key, serial, audio_only, current, strong, signs], with the issuer's key
  Roots,          \* names of the trust anchors
  TlsCertificates,                \* [id, not_before, not_after]
  Replies(_, _),  \* what a receiver may reply to a nonce on a TLS certificate
  MAX_TLS_CERTIFICATE_LIFETIME,   \* 4 in the code
  REQUEST_TIMEOUT,                \* 10 s in the code
  Now,
  MaxConnects     \* bound: calls of connect

ASSUME AuthAssumption ==
  /\ {MAX_TLS_CERTIFICATE_LIFETIME, REQUEST_TIMEOUT, Now, MaxConnects} \subseteq Nat
  /\ Roots \subseteq DOMAIN Certificates

VARIABLES
  link,       \* "Idle", "Open", or one of Steps: what connect waits for
  connects,   \* calls of connect: the nonce of the last is their number
  peer,       \* the TLS certificate the receiver presented
  identity,   \* DeviceIdentity: [certificate, audio_only, revocation_checked]
  proof       \* not in the code: the reply it was made from, and the path

link_vars == <<link, connects, peer, identity, proof>>

LinkInit ==
  link = "Idle" /\ connects = 0 /\ peer = << >> /\ identity = << >> /\ proof = << >>
-----------------------------------------------------------------------------
verify_tls_certificate_lifetime(der) ==
  /\ Now \in der.not_before .. der.not_after
  /\ der.not_after - Now <= MAX_TLS_CERTIFICATE_LIFETIME

\* parse_device_auth_message: an error comes first, then a response with known
\* algorithms; its nonce and its revocation bundle are optional.
parse_device_auth_message(reply) ==
  /\ reply.kind = "Response"
  /\ reply.signature_algorithm \in {"Pkcs1V15", "Pss"} /\ reply.hash_algorithm \in {"Sha1", "Sha256"}

verify_sender_nonce(received, expected) == received = <<expected>>

validate_signing_key(certificate) == certificate.strong /\ certificate.signs

\* The ways to pick some of S, one after the other.
Selections(S) == UNION {{q \in [1 .. n -> S] : IsInjective(q)} : n \in 0 .. Cardinality(S)}

\* verify_chain: webpki returns a path, as names, from the leaf through some of
\* the intermediates to a root, one of those there are.
verify_chain(leaf, intermediates) ==
  {p \in UNION {{<<leaf>> \o q \o <<root>> : q \in Selections(intermediates)} : root \in Roots} :
     /\ validate_signing_key(Certificates[leaf])
     /\ \A i \in 1 .. Len(p) - 1 :
          Certificates[p[i]].current /\ Certificates[p[i]].issuer = Certificates[p[i + 1]].key}

\* verify_chain: any certificate restricts, the anchor too.
audio_only(path) == \E i \in DOMAIN path : Certificates[path[i]].audio_only

auth_signature_input(nonce, der) == <<nonce, der.id>>

verify_auth_signature(reply, key, input) ==
  /\ <<reply.signature_algorithm, reply.hash_algorithm>> # <<"Pss", "Sha1">>
  /\ reply.signature = [key |-> key, over |-> input]

\* serial_number_u64: a serial that is negative or longer than 8 bytes, -1 here,
\* is in no range.
serial_in(serial, ranges) == serial >= 0 /\ \E r \in ranges : serial \in r.first .. r.last

\* A bug: the ranges of a key are held against the serial of its own certificate.
check_chain_at_self(list, path) ==
  /\ Now \in list.not_before .. list.not_after /\ Now <= list.signer_expires
  /\ \A i \in DOMAIN path :
       LET certificate == Certificates[path[i]]
       IN  /\ certificate.key \notin list.keys
           /\ ~serial_in(certificate.serial, {r \in list.ranges : r.issuer = certificate.key})

\* Revocations::check_chain_at: no key of the path, and no serial in a range of
\* the key of the certificate one further up.
check_chain_at(list, path) ==
  /\ Now \in list.not_before .. list.not_after /\ Now <= list.signer_expires
  /\ \A i \in DOMAIN path :
       LET key == Certificates[path[i]].key
       IN  /\ key \notin list.keys
           /\ i > 1 => ~serial_in(Certificates[path[i - 1]].serial, {r \in list.ranges : r.issuer = key})

\* parse_and_verify_one_crl: a current signer, its signature, the version and the
\* order of the ranges.
parse_and_verify_one_crl(list) ==
  list.signed /\ Now <= list.signer_expires /\ list.version = 0 /\ \A r \in list.ranges : r.first <= r.last

\* parse_and_verify_crl: the first list that verifies, if one does.
parse_and_verify_crl(bundle) ==
  {bundle[i] : i \in {k \in DOMAIN bundle : /\ parse_and_verify_one_crl(bundle[k])
                                           /\ \A j \in 1 .. k - 1 : ~parse_and_verify_one_crl(bundle[j])}}

\* The bundle of a reply is optional, like its nonce.
revocation_passes(crl, path) ==
  crl # << >> => \E list \in parse_and_verify_crl(crl[1]) : check_chain_at(list, path)

\* A bug: the nonce in the reply is taken for the one that was sent.
verify_challenge_reply_echoed(reply, nonce, der, path) ==
  /\ verify_tls_certificate_lifetime(der)
  /\ parse_device_auth_message(reply) /\ reply.sender_nonce # << >>
  /\ path \in verify_chain(reply.leaf, reply.intermediates)
  /\ verify_auth_signature(reply, Certificates[reply.leaf].key, auth_signature_input(reply.sender_nonce[1], der))
  /\ revocation_passes(reply.crl, path)

\* verify_challenge_reply, with the path that was found.
verify_challenge_reply(reply, nonce, der, path) ==
  /\ verify_tls_certificate_lifetime(der)
  /\ parse_device_auth_message(reply) /\ verify_sender_nonce(reply.sender_nonce, nonce)
  /\ path \in verify_chain(reply.leaf, reply.intermediates)
  /\ verify_auth_signature(reply, Certificates[reply.leaf].key, auth_signature_input(nonce, der))
  /\ revocation_passes(reply.crl, path)

device_identity(reply, path) ==
  [certificate |-> reply.leaf, audio_only |-> audio_only(path), revocation_checked |-> reply.crl # << >>]
-----------------------------------------------------------------------------
\* The steps of connect, in their order: the TCP connection, the TLS handshake, the
\* write of the challenge, its reply, and the write of CONNECT.
Steps == <<"Connecting", "Handshaking", "Tls", "Challenged", "Authenticated">>

\* The call returns an error and the connection is dropped.
Dropped ==
  link' = "Idle" /\ peer' = << >> /\ identity' = << >> /\ proof' = << >>

\* connect_address_inner: a TCP connection and a TLS handshake with a receiver
\* that presents a certificate.
Connect ==
  /\ link = "Idle" /\ connects < MaxConnects
  /\ link' = "Connecting" /\ connects' = connects + 1
  /\ Call(REQUEST_TIMEOUT)
  /\ UNCHANGED <<peer, identity, proof>>

TcpConnected ==
  /\ link = "Connecting"
  /\ link' = "Handshaking"
  /\ timeout(REQUEST_TIMEOUT)
  /\ UNCHANGED <<connects, peer, identity, proof>>

Handshake(der) ==
  /\ link = "Handshaking"
  /\ link' = "Tls" /\ peer' = der
  /\ timeout(REQUEST_TIMEOUT)
  /\ UNCHANGED <<connects, identity, proof>>

\* authenticate_receiver: the challenge, with a fresh nonce.
SendChallenge ==
  /\ link = "Tls"
  /\ link' = "Challenged"
  /\ timeout(REQUEST_TIMEOUT)
  /\ UNCHANGED <<connects, peer, identity, proof>>

\* The reply, which has to be a binary message of its namespace and route.
ReceiveReply(reply) ==
  /\ link = "Challenged"
  /\ UNCHANGED connects
  /\ \/ \E path \in verify_chain(reply.leaf, reply.intermediates) :
          IF reply.routed /\ verify_challenge_reply(reply, connects, peer, path)
          THEN /\ link' = "Authenticated"
               /\ identity' = device_identity(reply, path)
               /\ proof' = [reply |-> reply, path |-> path]
               /\ timeout(REQUEST_TIMEOUT)
               /\ UNCHANGED peer
          ELSE Dropped /\ UNCHANGED clock
     \/ verify_chain(reply.leaf, reply.intermediates) = {} /\ Dropped /\ UNCHANGED clock

\* The initial CONNECT is written, and the control loop is spawned.
SendConnect ==
  /\ link = "Authenticated"
  /\ link' = "Open"
  /\ UNCHANGED <<connects, peer, identity, proof, clock>>

\* Each step may fail, and fails when its time is up: those of
\* connect_address_inner, and those of authenticate_receiver.
ConnectFails ==
  /\ link \in {"Connecting", "Handshaking", "Authenticated"}
  /\ Dropped
  /\ UNCHANGED <<connects, clock>>

AuthenticationFails ==
  /\ link \in {"Tls", "Challenged"}
  /\ Dropped
  /\ UNCHANGED <<connects, clock>>

LinkNext ==
  \/ Connect
  \/ TcpConnected
  \/ \E der \in TlsCertificates : Handshake(der)
  \/ SendChallenge
  \/ link = "Challenged" /\ \E reply \in Replies(connects, peer) : ReceiveReply(reply)
  \/ SendConnect
  \/ ConnectFails
  \/ AuthenticationFails
-----------------------------------------------------------------------------
\* "The response's certificate chain is checked against the bundled Cast trust
\* roots and its signature is bound to the live TLS certificate and a fresh
\* nonce": a connection that opens has a reply made for this very connection, by
\* the holder of a key that a root vouches for.  It is restricted to audio exactly
\* when a certificate from the device's to its root's is.
IdentityIsProven ==
  link = "Open" =>
    /\ proof.reply.signature = [key |-> Certificates[identity.certificate].key, over |-> <<connects, peer.id>>]
    /\ proof.path[1] = identity.certificate /\ proof.path[Len(proof.path)] \in Roots
    /\ \A i \in 2 .. Len(proof.path) : Certificates[proof.path[i - 1]].issuer = Certificates[proof.path[i]].key
    /\ identity.audio_only <=> \E name \in Range(proof.path) : Certificates[name].audio_only

\* "Whether receiver-supplied revocation information was present and checked": a
\* receiver that supplies any gets a connection only with a list that is signed
\* and current and revokes nothing its identity rests on, neither a key of its
\* path nor a serial under the key that issued it.  A serial of 2^63 or more, whose
\* DER is longer than the 8 bytes serial_number_u64 reads, is in no range.
RevokedIsRefused ==
  link = "Open" =>
    /\ identity.revocation_checked <=> proof.reply.crl # << >>
    /\ identity.revocation_checked => \E list \in Range(proof.reply.crl[1]) :
         /\ list.signed /\ Now \in list.not_before .. list.not_after
         /\ \A name \in Range(proof.path) :
              LET certificate == Certificates[name]
              IN  /\ certificate.key \notin list.keys
                  /\ certificate.serial >= 0 /\ name \notin Roots =>
                       \A r \in list.ranges :
                         r.issuer = certificate.issuer => certificate.serial \notin r.first .. r.last
=============================================================================
