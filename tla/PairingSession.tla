--------------------------- MODULE PairingSession ---------------------------
(* Pairing with an Android TV (src/src/android_tv/pairing.rs): begin connects *)
(* and negotiates until the device shows a code, finish submits the code the  *)
(* user has read.  Each is one future that writes, waits and may be dropped   *)
(* at any await; between them the application holds the session.              *)
(*                                                                            *)
(* The device is external.  It sends any message at any time, of its own      *)
(* accord, twice or out of turn, with one exception: it acknowledges a secret *)
(* on the connection it got the right one on, once it has recorded the        *)
(* client's certificate, and that record stays.                               *)
EXTENDS Integers, Sequences, Functions

CONSTANTS
  MaxPairings,   \* bound: sessions begun
  MaxUnread      \* bound: messages of the device on their way

ASSUME PairingAssumption == {MaxPairings, MaxUnread} \subseteq Nat

VARIABLES
  pairing,       \* what is awaited, "Begun" between the calls, "Closing", or "Idle"
  outcome,       \* what the last call returned: "None", "Ok" or an error
  pairings,      \* sessions begun
  from_device,   \* messages sent by the device and not read
  recorded,      \* whether the device knows the client's certificate
  transcript     \* not in the code: what was written and read on the connection

pairing_vars == <<pairing, outcome, pairings, from_device, recorded, transcript>>

\* The steps that await a message, and the message written to get there.
Awaited == <<"RequestAck", "Options", "ConfigurationAck", "SecretAck">>
Requests == <<"Request", "ClientOptions", "Configuration", "Secret">>
step == IF pairing \in Range(Awaited) THEN CHOOSE i \in DOMAIN Awaited : Awaited[i] = pairing ELSE 0

\* What a user may enter: something that is not six hexadecimal digits, digits
\* whose first byte does not check the others, digits that do and are not the
\* ones shown (of an earlier session, or by chance), the ones shown.
Codes == {"Malformed", "Unchecked", "Other", "Shown"}

\* PairingEnvelope: `kind` is the field it has, `fault` what is wrong with it: the
\* status, the protocol version, or, for a RequestAck or Options, the name of the
\* device or the lack of a hexadecimal encoding.
PairingMessages ==
  [kind : Range(Awaited), fault : {"None", "Status", "Version", "Content"}]
    \cup {[kind |-> "Undecodable", fault |-> "None"]}

Wrote(what, code) == [kind |-> what, code |-> code]
Read(m) == [kind |-> m.kind, code |-> "None"]

PairingInit ==
  /\ pairing = "Idle" /\ outcome = "None" /\ pairings = 0
  /\ from_device = << >> /\ transcript = << >>
  /\ recorded \in BOOLEAN

\* The call returns and the connection is dropped.
Finished(result) ==
  /\ pairing' = "Idle" /\ outcome' = result
  /\ from_device' = << >> /\ transcript' = << >>
  /\ UNCHANGED <<pairings, recorded>>

\* write_pairing: it succeeds, fails or takes longer than EXCHANGE_TIMEOUT.
write_pairing(what, code, log, unread, next) ==
  \/ /\ pairing' = next
     /\ transcript' = Append(log, Wrote(what, code)) /\ from_device' = unread
     /\ UNCHANGED <<outcome, pairings, recorded>>
  \/ Finished("WriteFailed")
-----------------------------------------------------------------------------
\* begin_address: validate_client_name, connect and the key of the device's
\* certificate come before the first message.
BeginRefused(error) ==
  /\ pairing = "Idle" /\ pairings < MaxPairings
  /\ pairing' = "Idle" /\ outcome' = error /\ pairings' = pairings + 1
  /\ UNCHANGED <<from_device, recorded, transcript>>

Begin ==
  /\ pairing = "Idle" /\ pairings < MaxPairings
  /\ pairings' = pairings + 1
  /\ \/ /\ pairing' = "RequestAck" /\ transcript' = <<Wrote("Request", "None")>>
        /\ outcome' = "None"
     \/ pairing' = "Idle" /\ transcript' = << >> /\ outcome' = "WriteFailed"
  /\ UNCHANGED <<from_device, recorded>>

\* A bug: any message in good order acknowledges the secret.
rejection_but_for_secret(m) ==
  CASE m.kind = "Undecodable"                         -> "Protocol"
    [] m.fault = "Status"                             -> "PairingRejected"
    [] m.fault = "Version"                            -> "Protocol"
    [] pairing # "SecretAck" /\ m.kind # pairing      -> "Protocol"
    [] m.fault = "Content" /\ m.kind = "RequestAck"   -> "Protocol"
    [] m.fault = "Content" /\ m.kind = "Options"      -> "UnsupportedPairingConfiguration"
    [] OTHER                                          -> "None"

\* read_pairing, and what its caller asks of the message: "None" or the error.
rejection(m) ==
  CASE m.kind = "Undecodable"                         -> "Protocol"
    [] m.fault = "Status"                             -> "PairingRejected"
    [] m.fault = "Version"                            -> "Protocol"
    [] m.kind # pairing                               -> "Protocol"
    [] m.fault = "Content" /\ m.kind = "RequestAck"   -> "Protocol"
    [] m.fault = "Content" /\ m.kind = "Options"      -> "UnsupportedPairingConfiguration"
    [] OTHER                                          -> "None"

\* The awaited message: begin_exchange writes the next, and after the
\* configuration returns the session; finish_exchange closes.
ReadPairing ==
  /\ step > 0 /\ from_device # << >>
  /\ LET m   == Head(from_device)
         log == Append(transcript, Read(m))
     IN  \/ rejection(m) # "None" /\ Finished(rejection(m))
         \/ /\ rejection(m) = "None" /\ step < 3
            /\ write_pairing(Requests[step + 1], "None", log, Tail(from_device), Awaited[step + 1])
         \/ /\ rejection(m) = "None" /\ step >= 3
            /\ pairing' = IF step = 3 THEN "Begun" ELSE "Closing"
            /\ outcome' = IF step = 3 THEN "Ok" ELSE outcome
            /\ transcript' = log /\ from_device' = Tail(from_device)
            /\ UNCHANGED <<pairings, recorded>>

\* EXCHANGE_TIMEOUT, or the end of the stream.
PairingTimesOut == step > 0 /\ Finished("TimedOut")

\* compute_pairing_secret: the code is well formed and its first byte is that
\* of the digest over both keys and the others.
code_checks(code) == code \in {"Other", "Shown"}

\* A bug: the session is lent, not consumed, so a code can be sent again.
Finish_again(code) ==
  /\ pairing \in {"Begun", "SecretAck"} /\ code_checks(code)
  /\ write_pairing("Secret", code, transcript, from_device, "SecretAck")

\* finish: a code that does not check is refused before anything is written,
\* and takes the session with it.
Finish(code) ==
  /\ pairing = "Begun"
  /\ IF code_checks(code)
     THEN write_pairing("Secret", code, transcript, from_device, "SecretAck")
     ELSE Finished("InvalidPairingCode")

\* writer.shutdown succeeds, fails or times out: it is all the same.
CloseWriter == pairing = "Closing" /\ Finished("Ok")

\* The future of begin or finish, or the session between them, is dropped.
DropPairing == pairing # "Idle" /\ Finished("Cancelled")
-----------------------------------------------------------------------------
\* The device: it records the certificate when it gets the right secret.
DeviceRecords ==
  /\ Wrote("Secret", "Shown") \in Range(transcript)
  /\ recorded' = TRUE
  /\ UNCHANGED <<pairing, outcome, pairings, from_device, transcript>>

DeviceSends(m) ==
  /\ pairing # "Idle" /\ Len(from_device) < MaxUnread
  /\ m.kind = "SecretAck" /\ m.fault # "Status" => recorded /\ Wrote("Secret", "Shown") \in Range(transcript)
  /\ from_device' = Append(from_device, m)
  /\ UNCHANGED <<pairing, outcome, pairings, recorded, transcript>>

PairingNext ==
  \/ \E error \in {"InvalidClientInfo", "Connection", "TimedOut", "Protocol"} : BeginRefused(error)
  \/ Begin
  \/ ReadPairing
  \/ PairingTimesOut
  \/ \E code \in Codes : Finish(code)
  \/ CloseWriter
  \/ DropPairing
  \/ DeviceRecords
  \/ \E m \in PairingMessages : DeviceSends(m)
-----------------------------------------------------------------------------
\* "A PIN cannot accidentally be submitted twice on one protocol transcript":
\* the device is sent one secret on a connection at most, of a code that checks,
\* and only after it has said, in this order, that it accepts the request, that
\* it shows hexadecimal codes and that it accepts the configuration.
SecretsAreEarned ==
  \A i \in DOMAIN transcript : transcript[i].kind = "Secret" =>
    /\ \A j \in DOMAIN transcript : transcript[j].kind = "Secret" => j = i
    /\ code_checks(transcript[i].code)
    /\ \E a, b, c \in 1 .. i - 1 :
         /\ a < b /\ b < c
         /\ transcript[a].kind = "RequestAck" /\ transcript[b].kind = "Options"
         /\ transcript[c].kind = "ConfigurationAck"

\* finish returns Ok only when the device has recorded the certificate, whatever
\* else it sends before and instead of the acknowledgement.
PairedMeansRecorded == pairing = "Closing" => recorded
=============================================================================
