-------------------------- MODULE MCReceiverLookup --------------------------
(* An instance of ReceiverLookup for TLC.                                     *)
EXTENDS ReceiverLookup, SequencesExt

Service(id, instance, port, addresses) ==
  [id |-> id, instance |-> instance, port |-> port, addresses |-> addresses]
Address(family, ip, interfaces) ==
  [family |-> family, ip |-> ip, interfaces |-> interfaces, unicast |-> ip # 0]

\* Two devices: the first is resolved under two instances, with two ports, over
\* two interfaces and with an unscoped address; one service has no id.
MCServices ==
  {Service(1, 1, 1, {Address("V4", 1, {}), Address("V4", 0, {})}),
   Service(1, 2, 1, {Address("LinkLocal", 2, {1}), Address("Global", 3, {0})}),
   Service(1, 1, 2, {Address("V4", 1, {1, 2})}),
   Service(2, 2, 1, {Address("V4", 4, {1})}),
   Service(1, 2, 1, {Address("LinkLocal", 2, {0})}),
   Service(0, 1, 1, {Address("V4", 1, {})})}
-----------------------------------------------------------------------------
Certificate(issuer, key, serial, audio) ==
  [issuer |-> issuer, key |-> key, serial |-> serial, audio_only |-> audio,
   current |-> TRUE, strong |-> TRUE, signs |-> TRUE]

\* Two roots, one of them for audio only, an intermediate key certified by both,
\* and devices in and out of order.
MCCertificates ==
  [Root    |-> Certificate("r", "r", 1, FALSE),
   Audio   |-> Certificate("a", "a", 1, TRUE),
   Middle  |-> Certificate("r", "m", 2, FALSE),
   Crossed |-> Certificate("a", "m", 3, FALSE),
   Device  |-> Certificate("m", "d", 4, FALSE),
   Long    |-> Certificate("m", "l", -1, TRUE),
   Direct  |-> Certificate("r", "e", 2, FALSE),
   Weak    |-> [Certificate("m", "w", 5, FALSE) EXCEPT !.strong = FALSE],
   Other   |-> [Certificate("m", "x", 5, FALSE) EXCEPT !.signs = FALSE],
   Expired |-> [Certificate("m", "o", 6, FALSE) EXCEPT !.current = FALSE],
   Unknown |-> Certificate("u", "u", 7, FALSE)]

MCTls ==
  {[id |-> 1, not_before |-> 10, not_after |-> 10], [id |-> 2, not_before |-> 9, not_after |-> 12],
   [id |-> 3, not_before |-> 9, not_after |-> 13], [id |-> 4, not_before |-> 11, not_after |-> 12],
   [id |-> 5, not_before |-> 8, not_after |-> 9]}

List(keys, ranges) ==
  [signed |-> TRUE, version |-> 0, not_before |-> 9, not_after |-> 11, signer_expires |-> 11,
   keys |-> keys, ranges |-> ranges]
SerialRange(issuer, first, last) == [issuer |-> issuer, first |-> first, last |-> last]

Lists ==
  {List({}, {}), List({"m"}, {}), List({"a"}, {}), List({}, {SerialRange("m", 3, 4)}), List({}, {SerialRange("r", 2, 2)}),
   List({}, {SerialRange("d", 4, 4)}), List({}, {SerialRange("a", 4, 9)}), List({}, {SerialRange("r", 2, 1)})}
    \cup {[List({}, {}) EXCEPT !.signed = FALSE], [List({}, {}) EXCEPT !.version = 1],
          [List({}, {}) EXCEPT !.not_after = 9], [List({}, {}) EXCEPT !.not_before = 11],
          [List({}, {}) EXCEPT !.signer_expires = 9]}

Bundles ==
  {<< >>, << << >> >>} \cup {<< <<l>> >> : l \in Lists}
    \cup {<< <<[l EXCEPT !.signed = FALSE], List({}, {}), l>> >> : l \in Lists}

Good(nonce, der) ==
  [routed |-> TRUE, kind |-> "Response", sender_nonce |-> <<nonce>>, leaf |-> "Device", intermediates |-> {"Middle"},
   signature_algorithm |-> "Pkcs1V15", hash_algorithm |-> "Sha256", crl |-> << >>,
   signature |-> [key |-> "d", over |-> <<nonce, der.id>>]]

MCReplies(nonce, der) ==
  LET good == Good(nonce, der)
  IN  {[good EXCEPT !.leaf = leaf, !.intermediates = ca, !.crl = crl, !.signature.key = MCCertificates[leaf].key] :
         leaf \in {"Device", "Long", "Direct"}, ca \in {{"Middle"}, {"Middle", "Crossed"}}, crl \in Bundles}
        \cup {[good EXCEPT !.leaf = leaf, !.intermediates = ca, !.signature.key = MCCertificates[leaf].key] :
                leaf \in {"Device", "Direct", "Weak", "Other", "Expired", "Unknown"}, ca \in {{}, {"Crossed"}, {"Unknown"}}}
        \cup {[good EXCEPT !.sender_nonce = echo, !.signature.over = <<n, id>>, !.signature.key = key] :
                echo \in {<< >>} \cup {<<n>> : n \in 1 .. nonce}, n \in 1 .. nonce, id \in 1 .. 2, key \in {"d", "u"}}
        \cup {[good EXCEPT !.signature_algorithm = s, !.hash_algorithm = h] : s \in {"Pkcs1V15", "Pss", "Unknown"}, h \in {"Sha1", "Sha256", "Unknown"}}
        \cup {[good EXCEPT !.kind = "Error"], [good EXCEPT !.kind = "None"], [good EXCEPT !.routed = FALSE]}
-----------------------------------------------------------------------------
\* Responses in good order: the headers, and a body that may hold what looks like
\* framing, with or without a trailer, and maybe something after it.
Headers == <<"h", "End">>
Chunk(data) == <<Digits[Len(data) + 1]>> \o CRLF \o data \o CRLF
Bodies == {<< >>, <<<<"x">>>>, <<CRLF>>, <<<<"1">>, <<"0">>>>, <<<<"x">>, <<"x">>, <<"x">>>>}
Ends == {<<"0">> \o CRLF \o CRLF, <<"0">> \o CRLF \o <<"x">> \o CRLF \o CRLF}
Rests == {<< >>, <<"0">>}

Response(framing, length, status, body, rest, means) ==
  LET bytes == Headers \o body
  IN  [bytes |-> bytes \o rest, framing |-> framing, length |-> length, status |-> status,
       whole |-> IF Len(bytes \o rest) <= MAX_HEADER_BYTES + MAX_RESPONSE_BYTES THEN Len(bytes) ELSE 0,
       means |-> means]

Chunked ==
  {Response("Chunked", 0, status, FlattenSeq([i \in DOMAIN b |-> Chunk(b[i])]) \o end, rest,
            IF status = 200 THEN [result |-> "Ok", body |-> FlattenSeq(b)] ELSE [result |-> "Unsupported", body |-> << >>]) :
     b \in Bodies, end \in Ends, rest \in Rests, status \in {200, 404}}

Plain ==
  {Response(framing, Len(b), 200, b, IF framing = "Length" THEN rest ELSE << >>, [result |-> "Ok", body |-> b]) :
     framing \in {"Length", "Close"}, b \in {<< >>, <<"x">>, CRLF}, rest \in Rests}

\* And responses that lost a byte, have a wrong one, are cut short, or have wrong
\* or too many headers.
Damaged(r) ==
  {[r EXCEPT !.whole = 0, !.bytes = bytes] :
     bytes \in {RemoveAt(r.bytes, i) : i \in DOMAIN r.bytes} \cup {SubSeq(r.bytes, 1, i) : i \in 1 .. Len(r.bytes) - 1}
                 \cup {[r.bytes EXCEPT ![i] = b] : i \in DOMAIN r.bytes, b \in {"2", "LF", "Malformed"}}
                 \cup {[i \in 1 .. MAX_HEADER_BYTES - 1 |-> "h"] \o r.bytes}}
    \cup {[r EXCEPT !.whole = 0, !.framing = "BadLength"], [r EXCEPT !.whole = 0, !.status = 500],
          [r EXCEPT !.whole = 0, !.length = 99]}

MCResponses == Chunked \cup Plain \cup UNION {Damaged(r) : r \in Chunked \cup Plain}
=============================================================================
