---------------------------- MODULE SetupQuery ----------------------------
(* query_device_info (src/src/setup.rs): an HTTP request to the receiver's    *)
(* setup port and the reading of its response, which ends where the headers   *)
(* say it does or where the stream does.                                      *)
(*                                                                            *)
(* The receiver and httparse are external.  A response is its bytes and what  *)
(* its headers say, known once the last byte of the headers, "End", has been  *)
(* read.  In a body a byte is a hexadecimal digit, which may be data as well, *)
(* "CR", "LF" or something else, "x".  For the properties, the first `whole`  *)
(* bytes of a response in good order are those of the response, which `means` *)
(* what a query should return; `whole` is 0 for any other.                    *)
EXTENDS Sequences, FiniteSetsExt, Timeouts

CONSTANTS
  Responses,             \* what a receiver may send: [bytes, framing, length, status, whole, means]
  READ_SIZE,             \* 8192 in the code
  MAX_HEADER_BYTES,      \* 16384
  MAX_RESPONSE_BYTES,    \* 65536
  MAX_LINE,              \* 128: of a chunk-size line
  SETUP_TIMEOUT          \* REQUEST_TIMEOUT of setup.rs: 3 s

ASSUME SetupAssumption ==
  {READ_SIZE, MAX_HEADER_BYTES, MAX_RESPONSE_BYTES, MAX_LINE, SETUP_TIMEOUT} \subseteq Nat \ {0}

VARIABLES
  query,      \* "None", "Connecting", "Reading" or "Done"
  server,     \* the response the receiver sends
  response,   \* the bytes read
  info        \* what the query returned: [result, body]

query_vars == <<query, server, response, info>>

Failed == [result |-> "Err", body |-> << >>]
Nothing == [result |-> "None", body |-> << >>]

QueryInit == query = "None" /\ server = << >> /\ response = << >> /\ info = Nothing
-----------------------------------------------------------------------------
\* httparse: the length of the headers, 0 when there are more to come.
header_length(bytes) ==
  LET ends == {i \in DOMAIN bytes : bytes[i] = "End"}
  IN  IF ends = {} THEN 0 ELSE Min(ends)
malformed(bytes) ==
  \E i \in DOMAIN bytes : bytes[i] = "Malformed" /\ (header_length(bytes) = 0 \/ i < header_length(bytes))

\* The place of the first `pattern` from `offset` on, as an offset from there; -1
\* when there is none.
position(bytes, offset, pattern) ==
  LET found == {i \in 0 .. Len(bytes) - offset - Len(pattern) :
                  SubSeq(bytes, offset + i + 1, offset + i + Len(pattern)) = pattern}
  IN  IF found = {} THEN -1 ELSE Min(found)

CRLF == <<"CR", "LF">>
Digits == <<"0", "1", "2">>

\* What is told apart in a byte: "h" is one of the headers, "Malformed" a wrong one.
Byte == {"h", "End", "Malformed", "CR", "LF", "x"} \cup Range(Digits)

\* The size a line gives, or -1.  A chunk extension and spaces are left out.
chunk_size(line) ==
  LET digit(d) == (CHOOSE k \in DOMAIN Digits : Digits[k] = d) - 1
      size[n \in 0 .. Len(line)] == IF n = 0 THEN 0 ELSE 16 * size[n - 1] + digit(line[n])
  IN  IF line = << >> \/ ~(Range(line) \subseteq Range(Digits)) THEN -1 ELSE size[Len(line)]

\* An extent is a length, Unknown, or Invalid.
Unknown == -1
Invalid == -2

\* A turn of the loop in chunked_body_length: what it returns, or the offset at
\* which the next chunk starts.
chunk_at(encoded, offset) ==
  LET line_end == position(encoded, offset, CRLF)
      size     == chunk_size(SubSeq(encoded, offset + 1, offset + line_end))
      data     == offset + line_end + 2
      trailers == position(encoded, data, CRLF \o CRLF)
      next     == data + size + 2
      Returns(extent) == [returns |-> TRUE, at |-> extent]
  IN  IF line_end < 0 THEN Returns(Unknown)
      ELSE IF line_end > MAX_LINE \/ size < 0 THEN Returns(Invalid)
      ELSE IF size = 0
           THEN IF position(encoded, data, CRLF) = 0 THEN Returns(data + 2)
                ELSE IF trailers < 0 THEN Returns(Unknown) ELSE Returns(data + trailers + 4)
      ELSE IF size > MAX_RESPONSE_BYTES THEN Returns(Invalid)
      ELSE IF next > Len(encoded) THEN Returns(Unknown)
      ELSE IF SubSeq(encoded, next - 1, next) # CRLF \/ next > MAX_RESPONSE_BYTES THEN Returns(Invalid)
      ELSE [returns |-> FALSE, at |-> next]

\* from[offset] is the loop from there on.
chunked_body_length(encoded) ==
  LET from[offset \in 0 .. Len(encoded)] ==
        LET turn == chunk_at(encoded, offset)
        IN  IF turn.returns THEN turn.at ELSE from[turn.at]
  IN  from[0]

\* The length of the whole response, as far as what is there of r tells it.
response_extent(r, bytes) ==
  LET headers == header_length(bytes)
      body    == chunked_body_length(SubSeq(bytes, headers + 1, Len(bytes)))
  IN  IF malformed(bytes) \/ (IF headers = 0 THEN Len(bytes) ELSE headers) > MAX_HEADER_BYTES THEN Invalid
      ELSE IF headers = 0 THEN Unknown
      ELSE CASE r.framing = "Chunked"   -> IF body < 0 THEN body ELSE headers + body
             [] r.framing = "Length"    -> IF r.length > MAX_RESPONSE_BYTES THEN Invalid
                                           ELSE headers + r.length
             [] r.framing = "BadLength" -> Invalid
             [] r.framing = "Close"     -> Unknown

\* decode_chunked_body: from[offset] is what the loop appends from there on, when
\* it holds `decoded` bytes.
decode_chunked_body(encoded) ==
  LET from[offset \in 0 .. Len(encoded), decoded \in 0 .. Len(encoded)] ==
        LET line_end == position(encoded, offset, CRLF)
            size     == chunk_size(SubSeq(encoded, offset + 1, offset + line_end))
            data     == offset + line_end + 2
            next     == data + size + 2
        IN  IF line_end < 0 \/ line_end > MAX_LINE \/ size < 0 THEN Failed
            ELSE IF size = 0 THEN [result |-> "Ok", body |-> << >>]
            ELSE IF \/ decoded + size > MAX_RESPONSE_BYTES \/ next > Len(encoded)
                    \/ SubSeq(encoded, next - 1, next) # CRLF THEN Failed
            ELSE LET rest == from[next, decoded + size]
                 IN  IF rest.result = "Err" THEN Failed
                     ELSE [rest EXCEPT !.body = SubSeq(encoded, data + 1, data + size) \o @]
  IN  from[0, 0]

response_body(r, body) ==
  CASE r.framing = "Chunked"   -> decode_chunked_body(body)
    [] r.framing = "Length"    -> IF r.length > MAX_RESPONSE_BYTES \/ r.length > Len(body) THEN Failed
                                  ELSE [result |-> "Ok", body |-> SubSeq(body, 1, r.length)]
    [] r.framing = "BadLength" -> Failed
    [] r.framing = "Close"     -> IF Len(body) > MAX_RESPONSE_BYTES THEN Failed
                                  ELSE [result |-> "Ok", body |-> body]

\* parse_http_response.  The JSON of the body is left out.
parse_http_response(r, bytes) ==
  LET headers == header_length(bytes)
  IN  IF malformed(bytes) \/ headers = 0 \/ headers > MAX_HEADER_BYTES THEN Failed
      ELSE CASE r.status = 404 -> [result |-> "Unsupported", body |-> << >>]
             [] r.status = 500 -> Failed
             [] r.status = 200 -> response_body(r, SubSeq(bytes, headers + 1, Len(bytes)))

ASSUME ResponsesAssumption ==
  \A r \in Responses :
    /\ r.bytes \in Seq(Byte) /\ r.length \in Nat /\ r.whole \in 0 .. Len(r.bytes)
    /\ r.framing \in {"Chunked", "Length", "BadLength", "Close"}

\* A response in good order is one whose bytes, by themselves and all at once, mean
\* what it means: its headers tell where it ends, or it ends with the stream.
ASSUME WholeAssumption ==
  \A r \in Responses :
    LET whole == SubSeq(r.bytes, 1, r.whole)
    IN  r.whole > 0 =>
          /\ Len(r.bytes) <= MAX_HEADER_BYTES + MAX_RESPONSE_BYTES
          /\ parse_http_response(r, whole) = r.means
          /\ IF r.framing = "Close" THEN whole = r.bytes /\ response_extent(r, whole) = Unknown
             ELSE response_extent(r, whole) = r.whole
-----------------------------------------------------------------------------
Returned(result) ==
  /\ query' = "Done" /\ info' = result

query_device_info ==
  /\ query = "None"
  /\ query' = "Connecting"
  /\ Call(SETUP_TIMEOUT)
  /\ UNCHANGED <<server, response, info>>

\* query_device_info_inner: TCP, TLS and the request, which a receiver answers
\* with r.  Each may fail.
Requested(r) ==
  /\ query = "Connecting"
  /\ query' = "Reading" /\ server' = r
  /\ UNCHANGED <<response, info, clock>>

RequestFails ==
  /\ query = "Connecting"
  /\ Returned([Failed EXCEPT !.result = "IoError"])
  /\ UNCHANGED <<server, response, clock>>

\* A bug: a response has to fill its extent exactly.
complete_exactly(r, bytes) == Len(bytes) = response_extent(r, bytes)

\* There is all of the response, and maybe more.
complete(r, bytes) == response_extent(r, bytes) >= 0 /\ Len(bytes) >= response_extent(r, bytes)

\* read_http_response: a read of n bytes, and the end of the stream.
ReadResponse(n) ==
  LET bytes == SubSeq(server.bytes, 1, Len(response) + n)
  IN  /\ query = "Reading" /\ Len(response) + n <= Len(server.bytes)
      /\ UNCHANGED <<server, clock>>
      /\ IF Len(bytes) > MAX_HEADER_BYTES + MAX_RESPONSE_BYTES \/ response_extent(server, bytes) = Invalid
         THEN Returned(Failed) /\ UNCHANGED response
         ELSE IF complete(server, bytes)
         THEN /\ response' = SubSeq(bytes, 1, response_extent(server, bytes))
              /\ Returned(parse_http_response(server, response'))
         ELSE response' = bytes /\ UNCHANGED <<query, info>>

ReadEnds ==
  /\ query = "Reading"
  /\ \/ Len(response) = Len(server.bytes) /\ Returned(parse_http_response(server, response))
     \/ Returned([Failed EXCEPT !.result = "IoError"])
  /\ UNCHANGED <<server, response, clock>>

\* REQUEST_TIMEOUT over the whole query is up.
QueryTimesOut ==
  /\ query \in {"Connecting", "Reading"} /\ remaining = 0
  /\ Returned([Failed EXCEPT !.result = "TimedOut"])
  /\ UNCHANGED <<server, response, clock>>

QueryNext ==
  \/ query = "Connecting" /\ \E r \in Responses : Requested(r)
  \/ RequestFails
  \/ \E n \in 1 .. READ_SIZE : ReadResponse(n)
  \/ ReadEnds
  \/ QueryTimesOut
-----------------------------------------------------------------------------
Answered == query = "Done" /\ info.result \notin {"TimedOut", "IoError"}

\* What the query returns is a matter of the bytes the receiver sends, in good
\* order or not, never of how they are cut into reads: the same as for one read
\* of them all.  A response in good order is understood whatever follows it, and,
\* when its headers tell its length, as soon as it is there: the query does not
\* wait for the receiver to close the stream.
ResponsesAreUnderstood ==
  /\ Answered /\ Len(server.bytes) <= MAX_HEADER_BYTES + MAX_RESPONSE_BYTES =>
       LET all == server.bytes
           end == IF complete(server, all) THEN response_extent(server, all) ELSE Len(all)
       IN  info = IF response_extent(server, all) = Invalid THEN Failed
                  ELSE parse_http_response(server, SubSeq(all, 1, end))
  /\ server # << >> /\ server.whole > 0 =>
       /\ Answered => info = server.means
       /\ query = "Reading" /\ server.framing # "Close" => Len(response) < server.whole
=============================================================================
