--------------------------- MODULE AndroidTvProofs ---------------------------
(* The safety properties of pairing with an Android TV and of its remote, for *)
(* any number of sessions, calls, messages and pings.                         *)
EXTENDS AndroidTv, FiniteSetTheorems, TLAPS

-----------------------------------------------------------------------------
(* Pairing: what is awaited determines what has been said.                    *)

Said == {"Request", "RequestAck", "ClientOptions", "Options", "Configuration", "ConfigurationAck",
         "Secret", "SecretAck"}
Entries == [kind : Said, code : Codes \cup {"None"}]

\* How long the transcript is when p is awaited.
HasLength(p, n) ==
  \/ p = "RequestAck" /\ n = 1
  \/ p = "Options" /\ n = 3
  \/ p = "ConfigurationAck" /\ n = 5
  \/ p = "Begun" /\ n = 6
  \/ p = "SecretAck" /\ n = 7
  \/ p = "Closing" /\ n = 8

\* What its entries are: every other one is the device's, and one is a secret.
IsDialogue(t) ==
  \A i \in 1 .. Len(t) :
    /\ i = 2 => t[i].kind = "RequestAck"
    /\ i = 4 => t[i].kind = "Options"
    /\ i = 6 => t[i].kind = "ConfigurationAck"
    /\ t[i].kind = "Secret" <=> i = 7
    /\ i = 7 => code_checks(t[i].code)

\* An acknowledgement of the secret comes from a device that has recorded it.
AcksAreTrue ==
  \A i \in 1 .. Len(from_device) :
    from_device[i].kind = "SecretAck" /\ from_device[i].fault # "Status" => recorded

PairingInv ==
  /\ recorded \in BOOLEAN
  /\ from_device \in Seq(PairingMessages) /\ transcript \in Seq(Entries)
  /\ \/ pairing = "Idle" /\ transcript = << >> /\ from_device = << >>
     \/ HasLength(pairing, Len(transcript))
  /\ IsDialogue(transcript)
  /\ AcksAreTrue
  /\ PairedMeansRecorded

\* The messages awaited, in their order.
LEMMA StepFacts ==
  /\ step \in 0 .. 4
  /\ pairing = "RequestAck" => step = 1
  /\ pairing = "Options" => step = 2
  /\ pairing = "ConfigurationAck" => step = 3
  /\ pairing = "SecretAck" => step = 4
  /\ step > 0 => pairing \in {"RequestAck", "Options", "ConfigurationAck", "SecretAck"}
  <1>1. /\ DOMAIN Awaited = 1 .. 4
        /\ Awaited[1] = "RequestAck" /\ Awaited[2] = "Options"
        /\ Awaited[3] = "ConfigurationAck" /\ Awaited[4] = "SecretAck"
    BY DEF Awaited
  <1>2. Range(Awaited) = {"RequestAck", "Options", "ConfigurationAck", "SecretAck"}
    BY <1>1 DEF Range
  <1>3. ASSUME NEW j \in 1 .. 4, pairing = Awaited[j]
        PROVE  step = j
    <2>1. \A i \in 1 .. 4 : Awaited[i] = pairing => i = j
      BY <1>1, <1>3
    <2>2. pairing \in Range(Awaited)
      BY <1>1, <1>3, Zenon DEF Range
    <2>3. \E i \in DOMAIN Awaited : Awaited[i] = pairing
      BY <1>1, <1>3, Zenon
    <2> QED
      BY <1>1, <2>1, <2>2, <2>3, Zenon DEF step
  <1>4. step > 0 => pairing \in Range(Awaited)
    BY DEF step
  <1>5. step \in 0 .. 4
    <2>1. CASE pairing \in Range(Awaited)
      BY <1>1, <1>2, <1>3, <2>1
    <2>2. CASE pairing \notin Range(Awaited)
      BY <2>2 DEF step
    <2> QED
      BY <2>1, <2>2, Zenon
  <1> QED
    BY <1>1, <1>2, <1>3, <1>4, <1>5

\* The length of a dialogue tells what was awaited last.
LEMMA LengthFacts ==
  ASSUME NEW p, NEW n \in Nat, HasLength(p, n)
  PROVE  /\ p = "RequestAck" <=> n = 1
         /\ p = "Options" <=> n = 3
         /\ p = "ConfigurationAck" <=> n = 5
         /\ p = "Begun" <=> n = 6
         /\ p = "SecretAck" <=> n = 7
         /\ p = "Closing" <=> n = 8
  BY DEF HasLength

\* The lengths at which an answer is awaited.
LEMMA LengthIs ==
  /\ HasLength("RequestAck", 1) /\ HasLength("Options", 3) /\ HasLength("ConfigurationAck", 5)
  /\ HasLength("Begun", 6) /\ HasLength("SecretAck", 7) /\ HasLength("Closing", 8)
  BY Zenon DEF HasLength

\* A longer transcript.
LEMMA AppendEntry ==
  ASSUME NEW t \in Seq(Entries), NEW e \in Entries, IsDialogue(t),
         LET n == Len(t) + 1
         IN  /\ n = 2 => e.kind = "RequestAck"
             /\ n = 4 => e.kind = "Options"
             /\ n = 6 => e.kind = "ConfigurationAck"
             /\ e.kind = "Secret" <=> n = 7
             /\ n = 7 => code_checks(e.code)
  PROVE  /\ Append(t, e) \in Seq(Entries) /\ Len(Append(t, e)) = Len(t) + 1
         /\ IsDialogue(Append(t, e))
  <1>1. /\ Append(t, e) \in Seq(Entries) /\ Len(Append(t, e)) = Len(t) + 1 /\ Len(t) \in Nat
        /\ Append(t, e)[Len(t) + 1] = e
        /\ \A i \in 1 .. Len(t) : Append(t, e)[i] = t[i]
    OBVIOUS
  <1>2. ASSUME NEW i \in 1 .. Len(t) + 1
        PROVE  i \in 1 .. Len(t) \/ i = Len(t) + 1
    BY <1>1
  <1> QED
    BY <1>1, <1>2 DEF IsDialogue

\* The call returns: nothing is left on the connection.
LEMMA FinishedStep ==
  ASSUME PairingInv, NEW result, Finished(result)
  PROVE  PairingInv'
  BY DEF PairingInv, Finished, IsDialogue, AcksAreTrue, PairedMeansRecorded, HasLength

\* What is left of the unread messages.
LEMMA TailAcks ==
  ASSUME PairingInv, from_device # << >>
  PROVE  /\ Head(from_device) \in PairingMessages
         /\ Tail(from_device) \in Seq(PairingMessages)
         /\ \A i \in 1 .. Len(Tail(from_device)) :
              Tail(from_device)[i].kind = "SecretAck" /\ Tail(from_device)[i].fault # "Status" => recorded
         /\ Head(from_device).kind = "SecretAck" /\ Head(from_device).fault # "Status" => recorded
  <1>1. from_device \in Seq(PairingMessages)
    BY Zenon DEF PairingInv
  <1>2. /\ Head(from_device) \in PairingMessages /\ Tail(from_device) \in Seq(PairingMessages)
        /\ Head(from_device) = from_device[1] /\ 1 \in 1 .. Len(from_device)
        /\ \A i \in 1 .. Len(Tail(from_device)) :
             i + 1 \in 1 .. Len(from_device) /\ Tail(from_device)[i] = from_device[i + 1]
    BY <1>1
  <1> QED
    BY <1>2, Zenon DEF PairingInv, AcksAreTrue

\* A message that is not rejected is the one awaited.
LEMMA AcceptedMessage ==
  ASSUME NEW m, rejection(m) = "None"
  PROVE  m.kind = pairing /\ m.fault # "Status"
  BY Zenon DEF rejection

\* The next message is written.
LEMMA WriteStep ==
  ASSUME PairingInv, NEW what \in Said, NEW code \in Codes \cup {"None"}, NEW log \in Seq(Entries),
         NEW unread \in Seq(PairingMessages), NEW next, next # "Closing",
         write_pairing(what, code, log, unread, next),
         \A i \in 1 .. Len(unread) : unread[i].kind = "SecretAck" /\ unread[i].fault # "Status" => recorded,
         IsDialogue(log), HasLength(next, Len(log) + 1), Len(log) + 1 \notin {2, 4, 6},
         \/ what = "Secret" /\ Len(log) + 1 = 7 /\ code_checks(code)
         \/ what # "Secret" /\ Len(log) + 1 # 7
  PROVE  PairingInv'
  <1>1. CASE Finished("WriteFailed")
    BY <1>1, FinishedStep, Zenon
  <1>2. CASE /\ pairing' = next
             /\ transcript' = Append(log, Wrote(what, code)) /\ from_device' = unread
             /\ UNCHANGED <<outcome, pairings, recorded>>
    <2> DEFINE e == Wrote(what, code)
    <2>1. e \in Entries /\ e.kind = what /\ e.code = code
      BY Zenon DEF Entries, Wrote
    <2>2. /\ Append(log, e) \in Seq(Entries) /\ Len(Append(log, e)) = Len(log) + 1
          /\ IsDialogue(Append(log, e))
      BY <2>1, AppendEntry, Zenon
    <2> HIDE DEF e
    <2>3. transcript' = Append(log, e)
      BY <1>2, Zenon DEF e
    <2>4. AcksAreTrue' /\ PairedMeansRecorded'
      BY <1>2, Zenon DEF AcksAreTrue, PairedMeansRecorded
    <2> QED
      BY <1>2, <2>2, <2>3, <2>4, Zenon DEF PairingInv
  <1> QED
    BY <1>1, <1>2, Zenon DEF write_pairing

\* An awaited message.
LEMMA ReadPairingStep ==
  ASSUME PairingInv, ReadPairing
  PROVE  PairingInv'
  <1> DEFINE m   == Head(from_device)
             log == Append(transcript, Read(m))
  <1>1. step > 0 /\ from_device # << >>
    BY Zenon DEF ReadPairing
  <1>2. CASE rejection(m) # "None"
    <2>1. Finished(rejection(m))
      BY <1>2, Zenon DEF ReadPairing
    <2> QED
      BY <2>1, FinishedStep, Zenon
  <1>3. CASE rejection(m) = "None"
    <2>1. /\ m.kind = pairing /\ m.fault # "Status" /\ m \in PairingMessages
          /\ Tail(from_device) \in Seq(PairingMessages)
          /\ \A i \in 1 .. Len(Tail(from_device)) :
               Tail(from_device)[i].kind = "SecretAck" /\ Tail(from_device)[i].fault # "Status" => recorded
          /\ m.kind = "SecretAck" => recorded
      BY <1>1, <1>3, TailAcks, AcceptedMessage, Zenon
    <2>2. /\ transcript \in Seq(Entries) /\ IsDialogue(transcript) /\ Len(transcript) \in Nat
          /\ Read(m) \in Entries /\ Read(m).kind = pairing
          /\ HasLength(pairing, Len(transcript)) /\ pairing \in {"RequestAck", "Options", "ConfigurationAck", "SecretAck"}
      <3>1. pairing \in {"RequestAck", "Options", "ConfigurationAck", "SecretAck"}
        BY <1>1, StepFacts, Zenon
      <3>2. Read(m) \in Entries /\ Read(m).kind = pairing
        <4>1. Read(m) = [kind |-> pairing, code |-> "None"]
          BY <2>1, Zenon DEF Read
        <4>2. pairing \in Said
          BY <3>1, Zenon DEF Said
        <4> QED
          BY <4>1, <4>2 DEF Entries
      <3> QED
        BY <3>1, <3>2 DEF PairingInv
    <2>3. log \in Seq(Entries) /\ Len(log) = Len(transcript) + 1 /\ IsDialogue(log)
      <3>1. LET n == Len(transcript) + 1
            IN  /\ n = 2 => Read(m).kind = "RequestAck"
                /\ n = 4 => Read(m).kind = "Options"
                /\ n = 6 => Read(m).kind = "ConfigurationAck"
                /\ Read(m).kind = "Secret" <=> n = 7
                /\ n = 7 => code_checks(Read(m).code)
        <4> DEFINE k == Len(transcript)
                   kind == Read(m).kind
        <4>1. k \in Nat /\ kind = pairing /\ kind # "Secret" /\ HasLength(pairing, k)
          BY <2>2, Zenon
        <4> HIDE DEF k, kind
        <4>2. k \in {1, 3, 5, 7} /\ (k = 1 <=> kind = "RequestAck") /\ (k = 3 <=> kind = "Options")
                /\ (k = 5 <=> kind = "ConfigurationAck")
          BY <2>2, <4>1, LengthFacts, Zenon
        <4>3. k + 1 \in {2, 4, 6, 8} /\ (k + 1 = 2 <=> k = 1) /\ (k + 1 = 4 <=> k = 3) /\ (k + 1 = 6 <=> k = 5)
                /\ k + 1 # 7
          BY <4>2
        <4> QED
          BY <4>1, <4>2, <4>3, Zenon DEF k, kind
      <3> QED
        BY <2>2, <3>1, AppendEntry, Zenon
    <2>4. CASE step < 3
      <3>1. write_pairing(Requests[step + 1], "None", log, Tail(from_device), Awaited[step + 1])
        BY <1>3, <2>4, StepFacts DEF ReadPairing
      <3> HIDE DEF m, log
      <3>2. CASE pairing = "RequestAck"
        <4>1. step = 1 /\ Requests[step + 1] = "ClientOptions" /\ Awaited[step + 1] = "Options"
          BY <3>2, StepFacts DEF Requests, Awaited
        <4>2. Len(transcript) = 1
          BY <2>2, <3>2, LengthFacts, Zenon
        <4>3. Len(log) + 1 = 3 /\ HasLength("Options", Len(log) + 1)
          BY <2>3, <4>2, LengthIs
        <4>4. write_pairing("ClientOptions", "None", log, Tail(from_device), "Options")
          BY <3>1, <4>1, Zenon
        <4>5. /\ "ClientOptions" \in Said /\ "None" \in Codes \cup {"None"}
              /\ Len(log) + 1 \notin {2, 4, 6, 7}
          BY <4>3 DEF Said
        <4> QED
          BY <2>1, <2>3, <4>3, <4>4, <4>5, WriteStep, Zenon
      <3>3. CASE pairing = "Options"
        <4>1. step = 2 /\ Requests[step + 1] = "Configuration" /\ Awaited[step + 1] = "ConfigurationAck"
          BY <3>3, StepFacts DEF Requests, Awaited
        <4>2. Len(transcript) = 3
          BY <2>2, <3>3, LengthFacts, Zenon
        <4>3. Len(log) + 1 = 5 /\ HasLength("ConfigurationAck", Len(log) + 1)
          BY <2>3, <4>2, LengthIs
        <4>4. write_pairing("Configuration", "None", log, Tail(from_device), "ConfigurationAck")
          BY <3>1, <4>1, Zenon
        <4>5. /\ "Configuration" \in Said /\ "None" \in Codes \cup {"None"}
              /\ Len(log) + 1 \notin {2, 4, 6, 7}
          BY <4>3 DEF Said
        <4> QED
          BY <2>1, <2>3, <4>3, <4>4, <4>5, WriteStep, Zenon
      <3> QED
        BY <2>2, <2>4, <3>2, <3>3, StepFacts
    <2>5. CASE step >= 3
      <3>1. /\ pairing' = IF step = 3 THEN "Begun" ELSE "Closing"
            /\ transcript' = log /\ from_device' = Tail(from_device) /\ recorded' = recorded
        BY <1>3, <2>5, StepFacts DEF ReadPairing
      <3> HIDE DEF m, log
      <3>2. pairing \in {"ConfigurationAck", "SecretAck"}
        BY <2>2, <2>5, StepFacts
      <3>3. HasLength(pairing', Len(log))
        <4>1. CASE pairing = "ConfigurationAck"
          <5>1. Len(transcript) = 5 /\ pairing' = "Begun"
            BY <2>2, <3>1, <4>1, LengthFacts, StepFacts, Zenon
          <5> QED
            BY <2>3, <5>1, LengthIs
        <4>2. CASE pairing = "SecretAck"
          <5>1. Len(transcript) = 7 /\ pairing' = "Closing"
            BY <2>2, <3>1, <4>2, LengthFacts, StepFacts, Zenon
          <5> QED
            BY <2>3, <5>1, LengthIs
        <4> QED
          BY <3>2, <4>1, <4>2, Zenon
      <3>4. PairedMeansRecorded'
        BY <2>1, <3>1, <3>2, StepFacts, Zenon DEF PairedMeansRecorded
      <3> QED
        BY <2>1, <2>3, <3>1, <3>3, <3>4, Zenon DEF PairingInv, AcksAreTrue
    <2> QED
      BY <1>1, <2>2, <2>4, <2>5, StepFacts
  <1> QED
    BY <1>2, <1>3, Zenon
\* Every step of the exchange keeps the invariant.
LEMMA PairingStep ==
  ASSUME PairingInv, PairingNext
  PROVE  PairingInv'
  <1>1. ASSUME NEW error, BeginRefused(error)
        PROVE  PairingInv'
    BY <1>1, Zenon DEF BeginRefused, PairingInv, AcksAreTrue, PairedMeansRecorded
  <1>2. CASE Begin
    <2>1. pairing = "Idle" /\ transcript = << >> /\ from_device = << >>
      BY <1>2, Zenon DEF Begin, PairingInv, HasLength
    <2>2. CASE pairing' = "Idle" /\ transcript' = << >>
      BY <1>2, <2>1, <2>2, Zenon DEF Begin, PairingInv, IsDialogue, AcksAreTrue, PairedMeansRecorded
    <2>3. CASE pairing' = "RequestAck" /\ transcript' = <<Wrote("Request", "None")>>
      <3> DEFINE e == Wrote("Request", "None")
      <3>1. e \in Entries /\ e.kind = "Request"
        BY Zenon DEF Wrote, Entries, Said
      <3> HIDE DEF e
      <3>2. <<e>> \in Seq(Entries) /\ Len(<<e>>) = 1 /\ <<e>>[1] = e
        BY <3>1
      <3>3. IsDialogue(<<e>>)
        BY <3>1, <3>2 DEF IsDialogue
      <3>4. HasLength("RequestAck", Len(<<e>>))
        BY <3>2, LengthIs, Zenon
      <3>5. transcript' = <<e>> /\ UNCHANGED <<from_device, recorded>>
        BY <1>2, <2>3, Zenon DEF Begin, e
      <3>6. AcksAreTrue' /\ PairedMeansRecorded'
        BY <2>3, <3>5, Zenon DEF PairingInv, AcksAreTrue, PairedMeansRecorded
      <3> QED
        BY <2>3, <3>2, <3>3, <3>4, <3>5, <3>6, Zenon DEF PairingInv
    <2> QED
      BY <1>2, <2>2, <2>3, Zenon DEF Begin
  <1>3. CASE ReadPairing
    BY <1>3, ReadPairingStep, Zenon
  <1>4. CASE PairingTimesOut \/ CloseWriter \/ DropPairing
    BY <1>4, FinishedStep, Zenon DEF PairingTimesOut, CloseWriter, DropPairing
  <1>5. ASSUME NEW code \in Codes, Finish(code)
        PROVE  PairingInv'
    <2>1. pairing = "Begun"
      BY <1>5, Zenon DEF Finish
    <2>2. CASE code_checks(code)
      <3>1. /\ transcript \in Seq(Entries) /\ IsDialogue(transcript) /\ Len(transcript) = 6
            /\ from_device \in Seq(PairingMessages)
            /\ \A i \in 1 .. Len(from_device) :
                 from_device[i].kind = "SecretAck" /\ from_device[i].fault # "Status" => recorded
        <4>1. HasLength("Begun", Len(transcript)) /\ Len(transcript) \in Nat
          BY <2>1 DEF PairingInv
        <4>2. Len(transcript) = 6
          BY <4>1, LengthFacts, Zenon
        <4> QED
          BY <4>2, Zenon DEF PairingInv, AcksAreTrue
      <3>2. Len(transcript) + 1 = 7 /\ HasLength("SecretAck", Len(transcript) + 1)
        BY <3>1, LengthIs
      <3>3. write_pairing("Secret", code, transcript, from_device, "SecretAck")
        BY <1>5, <2>2, Zenon DEF Finish
      <3>4. "Secret" \in Said /\ code \in Codes \cup {"None"} /\ Len(transcript) + 1 \notin {2, 4, 6}
        BY <3>2 DEF Said
      <3> QED
        BY <2>2, <3>1, <3>2, <3>3, <3>4, WriteStep, Zenon
    <2>3. CASE ~code_checks(code)
      BY <1>5, <2>3, FinishedStep, Zenon DEF Finish
    <2> QED
      BY <2>2, <2>3, Zenon
  <1>6. CASE DeviceRecords
    BY <1>6, Zenon DEF DeviceRecords, PairingInv, AcksAreTrue, PairedMeansRecorded
  <1>7. ASSUME NEW m \in PairingMessages, DeviceSends(m)
        PROVE  PairingInv'
    <2>1. /\ pairing # "Idle" /\ from_device \in Seq(PairingMessages)
          /\ m.kind = "SecretAck" /\ m.fault # "Status" => recorded
          /\ from_device' = Append(from_device, m)
          /\ UNCHANGED <<pairing, recorded, transcript>>
      BY <1>7, Zenon DEF DeviceSends, PairingInv
    <2>2. /\ Append(from_device, m) \in Seq(PairingMessages)
          /\ \A i \in 1 .. Len(Append(from_device, m)) :
               Append(from_device, m)[i] = m \/ (i \in 1 .. Len(from_device) /\ Append(from_device, m)[i] = from_device[i])
      BY <2>1
    <2>3. AcksAreTrue'
      BY <2>1, <2>2, Zenon DEF PairingInv, AcksAreTrue
    <2> QED
      BY <2>1, <2>2, <2>3, Zenon DEF PairingInv, PairedMeansRecorded
  <1> QED
    BY <1>1, <1>2, <1>3, <1>4, <1>5, <1>6, <1>7, Zenon DEF PairingNext

\* The invariant holds before pairing starts.
LEMMA PairingInitInv ==
  ASSUME PairingInit PROVE PairingInv
  BY DEF PairingInit, PairingInv, IsDialogue, AcksAreTrue, PairedMeansRecorded

\* The rest of an application does not touch the pairing.
LEMMA PairingKept ==
  ASSUME PairingInv, UNCHANGED <<pairing, from_device, recorded, transcript>>
  PROVE  PairingInv'
  BY Zenon DEF PairingInv, AcksAreTrue, PairedMeansRecorded

\* The pairing dialogue, whatever the device answers and whenever it stops, is
\* always in a state the invariant describes.
THEOREM PairingInductive == AndroidTvSafety => []PairingInv
  <1>1. AndroidTvInit => PairingInv
    BY PairingInitInv, Zenon DEF AndroidTvInit
  <1>2. PairingInv /\ [AndroidTvNext]_android_tv_vars => PairingInv'
    BY PairingStep, PairingKept, Zenon DEF AndroidTvNext, Pairing, Remote, Connect, android_tv_vars, pairing_vars
  <1> QED
    BY <1>1, <1>2, PTL DEF AndroidTvSafety

\* finish returns Ok only when the device has recorded the certificate.
THEOREM PairedSafe == AndroidTvSafety => []PairedMeansRecorded
  <1>1. PairingInv => PairedMeansRecorded
    BY Zenon DEF PairingInv
  <1> QED
    BY <1>1, PairingInductive, PTL

\* A connection carries one secret at most, after the whole negotiation.
THEOREM SecretsSafe == AndroidTvSafety => []SecretsAreEarned
  <1>1. ASSUME PairingInv PROVE SecretsAreEarned
    <2> SUFFICES ASSUME NEW i \in DOMAIN transcript, transcript[i].kind = "Secret"
                 PROVE  /\ \A j \in DOMAIN transcript : transcript[j].kind = "Secret" => j = i
                        /\ code_checks(transcript[i].code)
                        /\ \E a, b, c \in 1 .. i - 1 :
                             /\ a < b /\ b < c
                             /\ transcript[a].kind = "RequestAck" /\ transcript[b].kind = "Options"
                             /\ transcript[c].kind = "ConfigurationAck"
      BY Zenon DEF SecretsAreEarned
    <2>1. transcript \in Seq(Entries) /\ IsDialogue(transcript) /\ DOMAIN transcript = 1 .. Len(transcript)
      BY <1>1 DEF PairingInv
    <2>2. /\ i = 7 /\ code_checks(transcript[i].code)
          /\ \A j \in 1 .. Len(transcript) : transcript[j].kind = "Secret" => j = 7
      BY <2>1, Zenon DEF IsDialogue
    <2>3. {2, 4, 6} \subseteq 1 .. Len(transcript) /\ {2, 4, 6} \subseteq 1 .. i - 1
      BY <2>1, <2>2
    <2>4. /\ transcript[2].kind = "RequestAck" /\ transcript[4].kind = "Options"
          /\ transcript[6].kind = "ConfigurationAck"
      BY <2>1, <2>3, Zenon DEF IsDialogue
    <2> QED
      BY <2>1, <2>2, <2>3, <2>4
  <1> QED
    BY <1>1, PairingInductive, PTL
-----------------------------------------------------------------------------
(* The remote.                                                               *)

Frames == [kind : {"Pong", "Configure", "SetActive", "Key"},
           of : Nat \cup (SUBSET IMPLEMENTED_FEATURES) \cup Calls]

PongsIn(o, n) == Cardinality({i \in 1 .. n : o[i].kind = "Pong"})

\* The pongs of o carry 1, 2, 3 ... in this order.
Numbered(o) == \A i \in 1 .. Len(o) : o[i].kind = "Pong" => o[i].of = PongsIn(o, i)

\* Of what o holds no two are the same key.
Once(o) == \A i, j \in 1 .. Len(o) : o[i].kind = "Key" /\ o[j] = o[i] => i = j

\* The two replies of the handshake, in this order, before n.
ToldBefore(o, fs, n) ==
  \E j, k \in 1 .. n - 1 : j < k /\ o[j] = Reply("Configure", fs) /\ o[k] = Reply("SetActive", fs)

\* Pongs are counted.
LEMMA PongsType ==
  ASSUME NEW o, NEW n \in Nat
  PROVE  PongsIn(o, n) \in Nat
  <1>1. IsFiniteSet(1 .. n)
    BY FS_Interval
  <1>2. {i \in 1 .. n : o[i].kind = "Pong"} \subseteq 1 .. n
    OBVIOUS
  <1>3. IsFiniteSet({i \in 1 .. n : o[i].kind = "Pong"})
    BY <1>1, <1>2, FS_Subset, Zenon
  <1> QED
    BY <1>3, FS_CardinalityType, Zenon DEF PongsIn

\* How the count goes on.
LEMMA AppendCount ==
  ASSUME NEW o \in Seq(Frames), NEW f \in Frames
  PROVE  /\ \A n \in 0 .. Len(o) : PongsIn(Append(o, f), n) = PongsIn(o, n)
         /\ PongsIn(Append(o, f), Len(o) + 1) = IF f.kind = "Pong" THEN PongsIn(o, Len(o)) + 1 ELSE PongsIn(o, Len(o))
  <1> DEFINE a == Append(o, f)
             P(s, n) == {i \in 1 .. n : s[i].kind = "Pong"}
             l == Len(o)
  <1>1. /\ l \in Nat /\ a[l + 1] = f
        /\ \A i \in 1 .. l : a[i] = o[i]
    OBVIOUS
  <1> HIDE DEF a, l
  <1>2. \A n \in 0 .. l : P(a, n) = P(o, n)
    BY <1>1
  <1>3. 1 .. l + 1 = 1 .. l \cup {l + 1} /\ l \in 0 .. l /\ l + 1 \notin 1 .. l
    BY <1>1
  <1>4. P(a, l + 1) = IF f.kind = "Pong" THEN P(o, l) \cup {l + 1} ELSE P(o, l)
    BY <1>1, <1>3, Zenon
  <1>5. IsFiniteSet(P(o, l)) /\ l + 1 \notin P(o, l)
    <2>1. IsFiniteSet(1 .. l) /\ P(o, l) \subseteq 1 .. l
      BY <1>1, FS_Interval
    <2> QED
      BY <2>1, <1>3, FS_Subset, Zenon
  <1>6. Cardinality(P(o, l) \cup {l + 1}) = Cardinality(P(o, l)) + 1
    BY <1>5, FS_AddElement, Zenon
  <1>7. \A n \in 0 .. l : PongsIn(a, n) = PongsIn(o, n)
    BY <1>2, Zenon DEF PongsIn
  <1>8. PongsIn(a, l + 1) = IF f.kind = "Pong" THEN PongsIn(o, l) + 1 ELSE PongsIn(o, l)
    BY <1>4, <1>6, Zenon DEF PongsIn
  <1> QED
    BY <1>7, <1>8, Zenon DEF a, l

\* A pong for the next ping keeps the pongs numbered.
LEMMA AppendNumbered ==
  ASSUME NEW o \in Seq(Frames), NEW f \in Frames, Numbered(o),
         f.kind = "Pong" => f.of = PongsIn(o, Len(o)) + 1
  PROVE  Numbered(Append(o, f))
  <1>1. /\ Len(o) \in Nat /\ Len(Append(o, f)) = Len(o) + 1
        /\ Append(o, f)[Len(o) + 1] = f
        /\ \A i \in 1 .. Len(o) : Append(o, f)[i] = o[i] /\ i \in 0 .. Len(o)
        /\ \A i \in 1 .. Len(o) + 1 : i \in 1 .. Len(o) \/ i = Len(o) + 1
    OBVIOUS
  <1>2. /\ \A n \in 0 .. Len(o) : PongsIn(Append(o, f), n) = PongsIn(o, n)
        /\ f.kind = "Pong" => PongsIn(Append(o, f), Len(o) + 1) = PongsIn(o, Len(o)) + 1
    BY AppendCount, Zenon
  <1> QED
    BY <1>1, <1>2, Zenon DEF Numbered

\* A key that was not written before is written once.
LEMMA AppendOnce ==
  ASSUME NEW o \in Seq(Frames), NEW f \in Frames, Once(o), f.kind = "Key" => f \notin Range(o)
  PROVE  Once(Append(o, f))
  <1>1. /\ Len(o) \in Nat /\ Len(Append(o, f)) = Len(o) + 1
        /\ Append(o, f)[Len(o) + 1] = f
        /\ \A i \in 1 .. Len(o) : Append(o, f)[i] = o[i]
        /\ \A i \in 1 .. Len(o) + 1 : i \in 1 .. Len(o) \/ i = Len(o) + 1
        /\ DOMAIN o = 1 .. Len(o)
    OBVIOUS
  <1> QED
    BY <1>1, ZenonT(40) DEF Once, Range

\* What a sequence holds after one more element.
LEMMA AppendRange ==
  ASSUME NEW S, NEW s \in Seq(S), NEW x \in S
  PROVE  Range(Append(s, x)) = Range(s) \cup {x} /\ Append(s, x) \in Seq(S)
  <1> DEFINE a == Append(s, x)
  <1>1. /\ Len(s) \in Nat /\ DOMAIN s = 1 .. Len(s) /\ DOMAIN a = 1 .. Len(s) + 1 /\ a \in Seq(S)
        /\ a[Len(s) + 1] = x /\ Len(s) + 1 \in 1 .. Len(s) + 1
        /\ \A i \in 1 .. Len(s) : a[i] = s[i] /\ i \in 1 .. Len(s) + 1
        /\ \A i \in 1 .. Len(s) + 1 : i \in 1 .. Len(s) \/ i = Len(s) + 1
    OBVIOUS
  <1> HIDE DEF a
  <1>2. \A y \in Range(a) : y \in Range(s) \cup {x}
    BY <1>1, Zenon DEF Range
  <1>3. \A y \in Range(s) : y \in Range(a)
    BY <1>1, Zenon DEF Range
  <1>4. x \in Range(a)
    BY <1>1, Zenon DEF Range
  <1> QED
    BY <1>1, <1>2, <1>3, <1>4, Zenon DEF a

\* What was told before still was when one more frame is written.
LEMMA AppendTold ==
  ASSUME NEW o \in Seq(Frames), NEW f \in Frames, NEW fs, NEW n \in 0 .. Len(o) + 1, ToldBefore(o, fs, n)
  PROVE  ToldBefore(Append(o, f), fs, n)
  <1>1. \A j \in 1 .. n - 1 : Append(o, f)[j] = o[j]
    OBVIOUS
  <1> QED
    BY <1>1, Zenon DEF ToldBefore

\* The command channel holds a call once; what is taken out is gone.
LEMMA TakeHead ==
  ASSUME NEW S, NEW s \in Seq(S), s # << >>, IsInjective(s)
  PROVE  /\ Head(s) \in S /\ Head(s) \in Range(s) /\ Tail(s) \in Seq(S)
         /\ Range(Tail(s)) = Range(s) \ {Head(s)} /\ IsInjective(Tail(s))
  <1>1. /\ Len(s) \in Nat \ {0} /\ Head(s) = s[1] /\ Tail(s) \in Seq(S) /\ DOMAIN s = 1 .. Len(s)
        /\ DOMAIN Tail(s) = 1 .. Len(s) - 1
        /\ \A i \in 1 .. Len(s) - 1 : Tail(s)[i] = s[i + 1] /\ i + 1 \in 1 .. Len(s)
    OBVIOUS
  <1>2. \A i, j \in 1 .. Len(s) : s[i] = s[j] => i = j
    BY <1>1, Zenon DEF IsInjective
  <1>3. \A i \in 2 .. Len(s) : i - 1 \in 1 .. Len(s) - 1 /\ s[i] = Tail(s)[i - 1] /\ s[i] # s[1]
    BY <1>1, <1>2
  <1>4. IsInjective(Tail(s))
    BY <1>1, <1>2 DEF IsInjective
  <1>5. Range(Tail(s)) \subseteq Range(s) \ {Head(s)}
    BY <1>1, <1>2 DEF Range
  <1>6. ASSUME NEW y \in Range(s), y # Head(s)
        PROVE  y \in Range(Tail(s))
    <2>1. PICK i \in 1 .. Len(s) : y = s[i]
      BY <1>1, <1>6, Zenon DEF Range
    <2>2. i \in 2 .. Len(s)
      BY <1>1, <1>6, <2>1
    <2>3. i - 1 \in DOMAIN Tail(s) /\ y = Tail(s)[i - 1]
      BY <1>1, <1>3, <2>1, <2>2, Zenon
    <2> QED
      BY <2>3, Zenon DEF Range
  <1>7. Head(s) \in Range(s) /\ Head(s) \in S
    <2>1. 1 \in DOMAIN s /\ s[1] \in S
      BY <1>1
    <2> QED
      BY <1>1, <2>1, Zenon DEF Range
  <1>8. Range(Tail(s)) = Range(s) \ {Head(s)}
    BY <1>5, <1>6, Zenon
  <1> QED
    BY <1>1, <1>4, <1>7, <1>8, Zenon

\* A new element repeats none.
LEMMA AppendInjective ==
  ASSUME NEW S, NEW s \in Seq(S), NEW x \in S, IsInjective(s), x \notin Range(s)
  PROVE  IsInjective(Append(s, x))
  <1>1. /\ Len(s) \in Nat /\ DOMAIN s = 1 .. Len(s) /\ DOMAIN Append(s, x) = 1 .. Len(s) + 1
        /\ Append(s, x)[Len(s) + 1] = x
        /\ \A i \in 1 .. Len(s) : Append(s, x)[i] = s[i]
        /\ \A i \in 1 .. Len(s) + 1 : i \in 1 .. Len(s) \/ i = Len(s) + 1
    OBVIOUS
  <1> QED
    BY <1>1, Zenon DEF IsInjective, Range

\* Sequences of one and of two elements are given by them.
LEMMA ShortSequences ==
  ASSUME NEW S, NEW t \in Seq(S), NEW a \in S, NEW b \in S
  PROVE  /\ Len(t) = 1 /\ t[1] = a => t = <<a>>
         /\ Len(t) = 2 /\ t[1] = a /\ t[2] = b => t = <<a, b>>
  OBVIOUS

\* What is written of an answer of two frames at most.
LEMMA Written ==
  ASSUME NEW S, NEW o \in Seq(S), NEW a \in S, NEW b \in S
  PROVE  /\ o \o SubSeq(<< >>, 1, 0) = o
         /\ o \o SubSeq(<<a>>, 1, 0) = o /\ o \o SubSeq(<<a>>, 1, 1) = Append(o, a)
         /\ o \o SubSeq(<<a, b>>, 1, 0) = o /\ o \o SubSeq(<<a, b>>, 1, 1) = Append(o, a)
         /\ o \o SubSeq(<<a, b>>, 1, 2) = Append(Append(o, a), b)
  <1>1. /\ SubSeq(<< >>, 1, 0) = << >> /\ SubSeq(<<a>>, 1, 0) = << >> /\ SubSeq(<<a, b>>, 1, 0) = << >>
        /\ SubSeq(<<a>>, 1, 1) = <<a>> /\ SubSeq(<<a, b>>, 1, 1) = <<a>> /\ SubSeq(<<a, b>>, 1, 2) = <<a, b>>
    <2>1. SubSeq(<< >>, 1, 0) = << >>
      OBVIOUS
    <2>2. SubSeq(<<a>>, 1, 0) = << >> /\ SubSeq(<<a, b>>, 1, 0) = << >>
      OBVIOUS
    <2>3. SubSeq(<<a>>, 1, 1) = <<a>>
      <3> DEFINE w == SubSeq(<<a>>, 1, 1)
      <3>1. w \in Seq(S) /\ Len(w) = 1 /\ w[1] = a
        OBVIOUS
      <3> HIDE DEF w
      <3>2. w = <<a>>
        BY <3>1, ShortSequences, Zenon
      <3> QED
        BY <3>2, Zenon DEF w
    <2>4. SubSeq(<<a, b>>, 1, 1) = <<a>>
      <3> DEFINE w == SubSeq(<<a, b>>, 1, 1)
      <3>1. w \in Seq(S) /\ Len(w) = 1 /\ w[1] = a
        OBVIOUS
      <3> HIDE DEF w
      <3>2. w = <<a>>
        BY <3>1, ShortSequences, Zenon
      <3> QED
        BY <3>2, Zenon DEF w
    <2>5. SubSeq(<<a, b>>, 1, 2) = <<a, b>>
      <3> DEFINE w == SubSeq(<<a, b>>, 1, 2)
      <3>1. /\ w \in Seq(S) /\ Len(w) = 2
            /\ w[1] = a /\ w[2] = b
        OBVIOUS
      <3> HIDE DEF w
      <3>2. w = <<a, b>>
        BY <3>1, ShortSequences
      <3> QED
        BY <3>2, Zenon DEF w
    <2> QED
      BY <2>1, <2>2, <2>3, <2>4, <2>5, Zenon
  <1>2. o \o << >> = o /\ o \o <<a>> = Append(o, a)
    OBVIOUS
  <1>3. o \o <<a, b>> = Append(Append(o, a), b)
    OBVIOUS
  <1> QED
    BY <1>1, <1>2, <1>3, Zenon

PingFrame == Pong(read.pings + 1)

\* The frames with the pong of m, and with its reply as well.
WithPong(m) == IF m.ping # {} THEN Append(out, PingFrame) ELSE out
WithReply(m) ==
  IF awaited(m) /\ phase # "Start" THEN Append(WithPong(m), Reply(phase, negotiated(m))) ELSE WithPong(m)

RemoteTypes ==
  /\ phase \in {"Configure", "SetActive", "Start", "Ready", "Over"}
  /\ out \in Seq(Frames)
  /\ commands \in Seq(Calls) /\ IsInjective(commands)
  /\ calls \in [Calls -> [kind : {None, "Key", "PowerKey", "Close"},
                          phase : {"Idle", "Sending", "Queued", "Answered", "Done"}, ok : BOOLEAN]]
  /\ read.pings \in Nat
  /\ features \subseteq IMPLEMENTED_FEATURES

\* The phases of the handshake.
LEMMA HandshakePhases == Handshaking <=> phase \in {"Configure", "SetActive", "Start"}
  <1>1. Range(Phases) = {"Configure", "SetActive", "Start"}
    <2>1. DOMAIN Phases = {1, 2, 3} /\ Phases[1] = "Configure" /\ Phases[2] = "SetActive" /\ Phases[3] = "Start"
      BY DEF Phases
    <2> QED
      BY <2>1, Zenon DEF Range
  <1> QED
    BY <1>1, Zenon DEF Handshaking

\* The frames the session writes, by their kinds.
LEMMA FrameTypes ==
  ASSUME RemoteTypes, NEW m \in Messages
  PROVE  /\ PingFrame \in Frames /\ PingFrame.kind = "Pong" /\ PingFrame.of = read.pings + 1
         /\ negotiated(m) \subseteq IMPLEMENTED_FEATURES
         /\ phase \in {"Configure", "SetActive"} =>
              Reply(phase, negotiated(m)) \in Frames /\ Reply(phase, negotiated(m)).kind # "Pong"
                /\ Reply(phase, negotiated(m)).kind # "Key"
         /\ \A c \in Calls : Key(c) \in Frames /\ Key(c).kind = "Key" /\ Key(c).of = c
         /\ m.ping = {} \/ m.ping = {"Ping"}
  <1>1. negotiated(m) \subseteq IMPLEMENTED_FEATURES
    BY Zenon DEF negotiated, RemoteTypes
  <1>2. m.ping = {} \/ m.ping = {"Ping"}
    BY Zenon DEF Messages, Option
  <1>3. PingFrame \in Frames /\ PingFrame.kind = "Pong" /\ PingFrame.of = read.pings + 1
    BY DEF PingFrame, Pong, Frames, RemoteTypes
  <1>4. phase \in {"Configure", "SetActive"} =>
          Reply(phase, negotiated(m)) \in Frames /\ Reply(phase, negotiated(m)).kind # "Pong"
            /\ Reply(phase, negotiated(m)).kind # "Key"
    BY <1>1, Zenon DEF Reply, Frames
  <1>5. \A c \in Calls : Key(c) \in Frames /\ Key(c).kind = "Key" /\ Key(c).of = c
    BY Zenon DEF Key, Frames
  <1> QED
    BY <1>1, <1>2, <1>3, <1>4, <1>5, Zenon

\* What a message of the handshake adds to the frames sent.
LEMMA HandshakeOut ==
  ASSUME RemoteTypes, NEW m \in Messages, NEW writes \in 0 .. 2, HandshakeMessage(m, writes)
  PROVE  /\ acceptable(m) /\ writes = Len(handshake_replies(m)) => out' = WithReply(m)
         /\ ~(acceptable(m) /\ writes = Len(handshake_replies(m))) => out' = out \/ out' = WithPong(m)
  <1> DEFINE P == PingFrame
             R == Reply(phase, negotiated(m))
  <1>1. /\ writes <= Len(handshake_replies(m))
        /\ out' = out \o SubSeq(handshake_replies(m), 1, writes)
        /\ phase \in {"Configure", "SetActive", "Start"}
    BY HandshakePhases, Zenon DEF HandshakeMessage
  <1>2. /\ m.error # {} => handshake_replies(m) = << >>
        /\ m.error = {} /\ ~acceptable(m) => handshake_replies(m) = pong(m)
        /\ acceptable(m) => m.error = {} /\ handshake_replies(m) = pong(m) \o reply(m)
    BY Zenon DEF handshake_replies, acceptable
  <1>3. /\ m.ping # {} => pong(m) = <<P>> /\ WithPong(m) = Append(out, P)
        /\ m.ping = {} => pong(m) = << >> /\ WithPong(m) = out
    BY Zenon DEF pong, WithPong, PingFrame
  <1>4. /\ awaited(m) /\ phase # "Start" => reply(m) = <<R>> /\ WithReply(m) = Append(WithPong(m), R)
        /\ ~(awaited(m) /\ phase # "Start") => reply(m) = << >> /\ WithReply(m) = WithPong(m)
    BY Zenon DEF reply, WithReply
  <1>5. out \in Seq(Frames) /\ P \in Frames /\ (phase # "Start" => R \in Frames)
    BY <1>1, FrameTypes, Zenon DEF RemoteTypes
  <1> HIDE DEF P, R
  <1>6. CASE handshake_replies(m) = << >>
    <2>1. writes = 0 /\ Len(handshake_replies(m)) = 0 /\ out' = out
      BY <1>1, <1>5, <1>6, Written
    <2>2. acceptable(m) => WithReply(m) = out
      <3> SUFFICES ASSUME acceptable(m) PROVE WithReply(m) = out
        OBVIOUS
      <3>1. pong(m) \o reply(m) = << >>
        BY <1>2, <1>6, Zenon
      <3>2. /\ <<P>> \o <<R>> # << >> /\ <<P>> \o << >> # << >> /\ << >> \o <<R>> # << >>
        OBVIOUS
      <3>3. m.ping = {} /\ ~(awaited(m) /\ phase # "Start")
        BY <1>3, <1>4, <3>1, <3>2, Zenon
      <3> QED
        BY <1>3, <1>4, <3>3, Zenon
    <2> QED
      BY <2>1, <2>2, Zenon
  <1>7. CASE handshake_replies(m) = <<P>> /\ m.ping # {}
    <2>1. Len(handshake_replies(m)) = 1 /\ writes \in {0, 1}
      BY <1>1, <1>7
    <2>2. /\ writes = 0 => out' = out
          /\ writes = 1 => out' = WithPong(m)
      <3>1. out \o SubSeq(<<P>>, 1, 0) = out /\ out \o SubSeq(<<P>>, 1, 1) = Append(out, P)
        BY <1>5, Written, Zenon
      <3> QED
        BY <1>1, <1>3, <1>7, <3>1, Zenon
    <2>3. acceptable(m) => ~(awaited(m) /\ phase # "Start")
      <3> SUFFICES ASSUME acceptable(m), awaited(m), phase # "Start" PROVE FALSE
        OBVIOUS
      <3>1. handshake_replies(m) = <<P>> \o <<R>>
        BY <1>2, <1>3, <1>4, <1>7, Zenon
      <3>2. Len(<<P>> \o <<R>>) = 2
        OBVIOUS
      <3> QED
        BY <2>1, <3>1, <3>2
    <2> QED
      BY <2>1, <2>2, <2>3, <1>4, Zenon
  <1>8. CASE handshake_replies(m) = <<R>> /\ m.ping = {} /\ acceptable(m) /\ awaited(m) /\ phase # "Start"
    <2>1. Len(handshake_replies(m)) = 1 /\ writes \in {0, 1}
      BY <1>1, <1>8
    <2>2. /\ writes = 0 => out' = out
          /\ writes = 1 => out' = Append(out, R)
      <3>1. out \o SubSeq(<<R>>, 1, 0) = out /\ out \o SubSeq(<<R>>, 1, 1) = Append(out, R)
        BY <1>5, <1>8, Written, Zenon
      <3> QED
        BY <1>1, <1>8, <3>1, Zenon
    <2> QED
      BY <2>1, <2>2, <1>3, <1>4, <1>8, Zenon
  <1>9. CASE handshake_replies(m) = <<P, R>> /\ m.ping # {} /\ acceptable(m) /\ awaited(m) /\ phase # "Start"
    <2>1. Len(handshake_replies(m)) = 2 /\ writes \in {0, 1, 2}
      BY <1>1, <1>9
    <2>2. /\ writes = 0 => out' = out
          /\ writes = 1 => out' = Append(out, P)
          /\ writes = 2 => out' = Append(Append(out, P), R)
      <3>0. out \in Seq(Frames) /\ P \in Frames /\ R \in Frames
        BY <1>5, <1>9, Zenon
      <3>1. /\ out \o SubSeq(<<P, R>>, 1, 0) = out /\ out \o SubSeq(<<P, R>>, 1, 1) = Append(out, P)
            /\ out \o SubSeq(<<P, R>>, 1, 2) = Append(Append(out, P), R)
        BY <3>0, Written
      <3> QED
        BY <1>1, <1>9, <3>1, Zenon
    <2> QED
      BY <2>1, <2>2, <1>3, <1>4, <1>9, Zenon
  <1>10. << >> \o << >> = << >> /\ <<P>> \o << >> = <<P>> /\ << >> \o <<R>> = <<R>> /\ <<P>> \o <<R>> = <<P, R>>
    <2>1. << >> \o << >> = << >>
      OBVIOUS
    <2>2. <<P>> \o << >> = <<P>> /\ << >> \o <<R>> = <<R>>
      OBVIOUS
    <2>3. <<P>> \o <<R>> = <<P, R>>
      <3> DEFINE w == <<P>> \o <<R>>
      <3>1. P \in {P, R} /\ R \in {P, R} /\ w \in Seq({P, R})
        OBVIOUS
      <3>2. Len(w) = 2 /\ w[1] = P /\ w[2] = R
        OBVIOUS
      <3> HIDE DEF w
      <3>3. w = <<P, R>>
        BY <3>1, <3>2, ShortSequences
      <3> QED
        BY <3>3, Zenon DEF w
    <2> QED
      BY <2>1, <2>2, <2>3, Zenon
  <1> QED
    BY <1>2, <1>3, <1>4, <1>6, <1>7, <1>8, <1>9, <1>10, Zenon

-----------------------------------------------------------------------------
\* What has been sent: its pongs are numbered, no key is there twice, and keys come
\* after the replies of the handshake.
FramesInv ==
  /\ Numbered(out) /\ Once(out)
  /\ phase # "Over" => PongsIn(out, Len(out)) = read.pings
  /\ \A i \in 1 .. Len(out) : out[i].kind = "Key" => out[i].of \in Calls /\ ToldBefore(out, features, i)
  /\ phase = "SetActive" => \E j \in 1 .. Len(out) : out[j] = Reply("Configure", features)
  /\ phase \in {"Start", "Ready"} => ToldBefore(out, features, Len(out) + 1)
  /\ Handshaking => \A i \in 1 .. Len(out) : out[i].kind # "Key"

\* A call is in the channel, or its key is sent, once at most and only when the
\* features it needs are there; before the session is ready there is none.
CallInv(c) ==
  /\ c \in Range(commands) \/ Key(c) \in Range(out) => calls[c].phase \notin {"Idle", "Sending"}
  /\ ~(c \in Range(commands) /\ Key(c) \in Range(out))
  /\ calls[c].phase = "Sending" \/ c \in Range(commands) \/ Key(c) \in Range(out) =>
       calls[c].kind \in {"Key", "PowerKey", "Close"} /\ required(calls[c].kind) \subseteq features
  /\ Key(c) \in Range(out) => calls[c].kind # "Close"
  /\ calls[c].kind \in {"Key", "PowerKey"} /\ calls[c].ok => Key(c) \in Range(out)

CallsInv ==
  /\ \A c \in Calls : CallInv(c)
  /\ Handshaking => handle = "Gone" /\ commands = << >> /\ \A c \in Calls : calls[c].phase = "Idle"

LatestInv ==
  /\ features \subseteq read.features
  /\ phase # "Over" => volume = read.volume
  /\ Ready => power = read.power

RemoteInv == RemoteTypes /\ FramesInv /\ CallsInv /\ LatestInv

\* A step that sends nothing and leaves the phase, or ends the session.
LEMMA FramesKept ==
  ASSUME RemoteTypes, FramesInv, UNCHANGED <<out, features>>,
         (phase' = phase /\ read'.pings = read.pings) \/ phase' = "Over"
  PROVE  FramesInv'
  <1>1. Handshaking' => Handshaking /\ phase' = phase
    BY HandshakePhases DEF Handshaking, Phases, Range
  <1> QED
    BY <1>1, Zenon DEF FramesInv, Numbered, Once, PongsIn, ToldBefore

\* Pongs after keys and keys after pongs.
LEMMA ReadyFrame ==
  ASSUME RemoteTypes, FramesInv, Ready, UNCHANGED features, NEW f \in Frames, out' = Append(out, f),
         phase' \in {"Ready", "Over"},
         \/ f = PingFrame /\ (phase' = "Ready" => read'.pings = read.pings + 1)
         \/ \E c \in Calls : f = Key(c) /\ f \notin Range(out) /\ UNCHANGED read
  PROVE  FramesInv' /\ out' \in Seq(Frames)
  <1>1. /\ out \in Seq(Frames) /\ Len(out) \in Nat /\ Len(Append(out, f)) = Len(out) + 1
        /\ Append(out, f)[Len(out) + 1] = f /\ Append(out, f) \in Seq(Frames)
        /\ \A i \in 1 .. Len(out) : Append(out, f)[i] = out[i]
        /\ \A i \in 1 .. Len(out) + 1 : i \in 1 .. Len(out) \/ i = Len(out) + 1
    BY DEF RemoteTypes
  <1>2. /\ phase = "Ready" /\ ~Handshaking' /\ phase' # "SetActive" /\ phase' # "Start" /\ read.pings \in Nat
    BY HandshakePhases DEF Ready, RemoteTypes, Handshaking, Phases, Range
  <1>3. /\ PingFrame.kind = "Pong" /\ PingFrame.of = read.pings + 1
        /\ \A c \in Calls : Key(c).kind = "Key" /\ Key(c).of = c
    BY Zenon DEF RemoteTypes, PingFrame, Pong, Key
  <1>4. PongsIn(out, Len(out)) = read.pings
    BY <1>2, Zenon DEF FramesInv
  <1>5. f.kind = "Pong" => f.of = PongsIn(out, Len(out)) + 1
    BY <1>3, <1>4, Zenon
  <1>6. Numbered(Append(out, f))
    BY <1>1, <1>5, AppendNumbered, Zenon DEF FramesInv
  <1>7. Once(Append(out, f))
    <2>1. f.kind = "Key" => f \notin Range(out)
      BY <1>3, Zenon
    <2> QED
      BY <1>1, <2>1, AppendOnce, Zenon DEF FramesInv
  <1>8. phase' = "Ready" => PongsIn(Append(out, f), Len(out) + 1) = read'.pings
    <2>1. PongsIn(Append(out, f), Len(out) + 1) = IF f.kind = "Pong" THEN PongsIn(out, Len(out)) + 1 ELSE PongsIn(out, Len(out))
      BY <1>1, AppendCount, Zenon
    <2> QED
      BY <2>1, <1>3, <1>4, Zenon
  <1>9. ToldBefore(Append(out, f), features, Len(out) + 1)
    <2>1. ToldBefore(out, features, Len(out) + 1) /\ Len(out) + 1 \in 0 .. Len(out) + 1
      BY <1>1, <1>2 DEF FramesInv
    <2> QED
      BY <1>1, <2>1, AppendTold, Zenon
  <1>10. ToldBefore(Append(out, f), features, Len(out) + 2)
    BY <1>1, <1>9 DEF ToldBefore
  <1>11. ASSUME NEW i \in 1 .. Len(out), out[i].kind = "Key"
         PROVE  out[i].of \in Calls /\ ToldBefore(Append(out, f), features, i)
    <2>1. i \in 0 .. Len(out) + 1 /\ out[i].of \in Calls /\ ToldBefore(out, features, i)
      BY <1>1, <1>11 DEF FramesInv
    <2> QED
      BY <1>1, <2>1, AppendTold, Zenon
  <1>12. f.kind = "Key" => f.of \in Calls
    BY <1>3, Zenon
  <1>13. Len(out') = Len(out) + 1 /\ Len(out') + 1 = Len(out) + 2
    BY <1>1
  <1> HIDE DEF Numbered, Once, PongsIn, ToldBefore
  <1>14. \A i \in 1 .. Len(out') : out'[i].kind = "Key" => out'[i].of \in Calls /\ ToldBefore(out', features', i)
    BY <1>1, <1>9, <1>11, <1>12, <1>13, Zenon
  <1>15. Numbered(out') /\ Once(out') /\ ToldBefore(out', features', Len(out') + 1)
    BY <1>6, <1>7, <1>10, <1>13, Zenon
  <1>16. phase' # "Over" => PongsIn(out', Len(out')) = read'.pings
    BY <1>8, <1>13, Zenon
  <1> QED
    BY <1>1, <1>2, <1>14, <1>15, <1>16, Zenon DEF FramesInv, Numbered, Once, PongsIn, ToldBefore

\* Frames without a key, of a message in the handshake.
LEMMA Unkeyed ==
  ASSUME NEW o \in Seq(Frames), NEW f \in Frames, \A i \in 1 .. Len(o) : o[i].kind # "Key", f.kind # "Key"
  PROVE  /\ Append(o, f) \in Seq(Frames)
         /\ \A i \in 1 .. Len(Append(o, f)) : Append(o, f)[i].kind # "Key"
         /\ \A c \in Calls : Key(c) \notin Range(Append(o, f))
  <1>1. /\ Len(o) \in Nat /\ Len(Append(o, f)) = Len(o) + 1 /\ Append(o, f) \in Seq(Frames)
        /\ Append(o, f)[Len(o) + 1] = f
        /\ \A i \in 1 .. Len(o) : Append(o, f)[i] = o[i]
        /\ \A i \in 1 .. Len(o) + 1 : i \in 1 .. Len(o) \/ i = Len(o) + 1
        /\ DOMAIN Append(o, f) = 1 .. Len(o) + 1
    OBVIOUS
  <1>2. \A i \in 1 .. Len(o) + 1 : Append(o, f)[i].kind # "Key"
    BY <1>1, Zenon
  <1>3. \A c \in Calls : Key(c).kind = "Key"
    BY Zenon DEF Key
  <1>4. \A c \in Calls : Key(c) \notin Range(Append(o, f))
    BY <1>1, <1>2, <1>3, Zenon DEF Range
  <1> QED
    BY <1>1, <1>2, <1>4, Zenon

\* The frames while the handshake lasts.
Greeting(o, n) ==
  /\ o \in Seq(Frames) /\ Numbered(o) /\ Once(o) /\ PongsIn(o, Len(o)) = n
  /\ \A i \in 1 .. Len(o) : o[i].kind # "Key"
  /\ \A c \in Calls : Key(c) \notin Range(o)

\* One more frame before the session is ready keeps the greeting in order.
LEMMA AppendGreeting ==
  ASSUME NEW o, NEW n \in Nat, Greeting(o, n), NEW f \in Frames, f.kind # "Key", f.kind = "Pong" => f.of = n + 1
  PROVE  /\ Greeting(Append(o, f), IF f.kind = "Pong" THEN n + 1 ELSE n)
         /\ Len(Append(o, f)) = Len(o) + 1 /\ Append(o, f)[Len(o) + 1] = f /\ Len(o) \in Nat
         /\ \A i \in 1 .. Len(o) : Append(o, f)[i] = o[i]
  <1>1. o \in Seq(Frames) /\ Numbered(o) /\ Once(o) /\ PongsIn(o, Len(o)) = n
    BY Zenon DEF Greeting
  <1>2. /\ Len(Append(o, f)) = Len(o) + 1 /\ Append(o, f)[Len(o) + 1] = f /\ Len(o) \in Nat
        /\ \A i \in 1 .. Len(o) : Append(o, f)[i] = o[i]
    BY <1>1
  <1>3. Numbered(Append(o, f))
    BY <1>1, AppendNumbered, Zenon
  <1>4. Once(Append(o, f))
    BY <1>1, AppendOnce, Zenon
  <1>5. PongsIn(Append(o, f), Len(o) + 1) = IF f.kind = "Pong" THEN n + 1 ELSE n
    BY <1>1, AppendCount, Zenon
  <1>6. /\ Append(o, f) \in Seq(Frames)
        /\ \A i \in 1 .. Len(Append(o, f)) : Append(o, f)[i].kind # "Key"
        /\ \A c \in Calls : Key(c) \notin Range(Append(o, f))
    BY <1>1, Unkeyed, Zenon DEF Greeting
  <1>7. PongsIn(Append(o, f), Len(Append(o, f))) = IF f.kind = "Pong" THEN n + 1 ELSE n
    BY <1>2, <1>5, Zenon
  <1> QED
    BY <1>2, <1>3, <1>4, <1>6, <1>7, Zenon DEF Greeting

\* A message of the handshake, as it is accepted or refused.
LEMMA HandshakeFrames ==
  ASSUME RemoteInv, NEW m \in Messages, Handshaking
  PROVE  /\ Greeting(out, read.pings)
         /\ Greeting(WithPong(m), read.pings + Cardinality(m.ping))
         /\ Greeting(WithReply(m), read.pings + Cardinality(m.ping))
         /\ Len(WithPong(m)) \in Nat /\ Len(out) \in Nat
         /\ Len(out) <= Len(WithPong(m)) /\ \A i \in 1 .. Len(out) : WithPong(m)[i] = out[i]
         /\ awaited(m) /\ phase # "Start" =>
              /\ Len(WithReply(m)) = Len(WithPong(m)) + 1
              /\ WithReply(m)[Len(WithPong(m)) + 1] = Reply(phase, negotiated(m))
              /\ \A i \in 1 .. Len(WithPong(m)) : WithReply(m)[i] = WithPong(m)[i]
         /\ ~(awaited(m) /\ phase # "Start") => WithReply(m) = WithPong(m)
  <1> DEFINE n == read.pings + Cardinality(m.ping)
             R == Reply(phase, negotiated(m))
  <1>1. phase \in {"Configure", "SetActive", "Start"} /\ phase # "Over" /\ RemoteTypes /\ read.pings \in Nat
    BY HandshakePhases, Zenon DEF RemoteInv, RemoteTypes
  <1>2. Greeting(out, read.pings)
    <2>1. /\ out \in Seq(Frames) /\ Numbered(out) /\ Once(out) /\ PongsIn(out, Len(out)) = read.pings
          /\ \A i \in 1 .. Len(out) : out[i].kind # "Key"
      BY <1>1, Zenon DEF RemoteInv, FramesInv, RemoteTypes
    <2>2. \A c \in Calls : Key(c).kind = "Key"
      BY Zenon DEF Key
    <2>3. DOMAIN out = 1 .. Len(out)
      BY <2>1
    <2>4. \A c \in Calls : Key(c) \notin Range(out)
      BY <2>1, <2>2, <2>3, Zenon DEF Range
    <2> QED
      BY <2>1, <2>4, Zenon DEF Greeting
  <1>3. /\ PingFrame \in Frames /\ PingFrame.kind = "Pong" /\ PingFrame.of = read.pings + 1
        /\ m.ping = {} \/ m.ping = {"Ping"}
        /\ phase # "Start" => R \in Frames /\ R.kind # "Pong" /\ R.kind # "Key"
    BY <1>1, FrameTypes, Zenon
  <1>4. (m.ping = {} => n = read.pings) /\ (m.ping # {} => n = read.pings + 1) /\ n \in Nat
    <2>1. Cardinality({}) = 0 /\ Cardinality({"Ping"}) = 1
      BY FS_EmptySet, FS_Singleton, Zenon
    <2>2. (m.ping = {} => Cardinality(m.ping) = 0) /\ (m.ping # {} => Cardinality(m.ping) = 1)
      BY <1>3, <2>1, Zenon
    <2> QED
      BY <1>1, <2>2
  <1> HIDE DEF n, R
  <1>5. /\ Greeting(WithPong(m), n) /\ Len(out) \in Nat /\ Len(WithPong(m)) \in Nat
        /\ Len(out) <= Len(WithPong(m)) /\ \A i \in 1 .. Len(out) : WithPong(m)[i] = out[i]
    <2>1. CASE m.ping = {}
      BY <1>2, <1>4, <2>1 DEF WithPong, Greeting
    <2>2. CASE m.ping # {}
      <3>1. WithPong(m) = Append(out, PingFrame) /\ n = read.pings + 1
        BY <1>4, <2>2, Zenon DEF WithPong
      <3>2. /\ Greeting(Append(out, PingFrame), read.pings + 1) /\ Len(Append(out, PingFrame)) = Len(out) + 1
            /\ Len(out) \in Nat /\ \A i \in 1 .. Len(out) : Append(out, PingFrame)[i] = out[i]
        BY <1>1, <1>2, <1>3, AppendGreeting
      <3> QED
        BY <3>1, <3>2
    <2> QED
      BY <2>1, <2>2, Zenon
  <1>6. CASE awaited(m) /\ phase # "Start"
    <2>1. WithReply(m) = Append(WithPong(m), R)
      BY <1>6, Zenon DEF WithReply, R
    <2>2. /\ Greeting(Append(WithPong(m), R), n) /\ Len(Append(WithPong(m), R)) = Len(WithPong(m)) + 1
          /\ Append(WithPong(m), R)[Len(WithPong(m)) + 1] = R
          /\ \A i \in 1 .. Len(WithPong(m)) : Append(WithPong(m), R)[i] = WithPong(m)[i]
      BY <1>3, <1>4, <1>5, <1>6, AppendGreeting
    <2> QED
      BY <1>2, <1>5, <1>6, <2>1, <2>2, Zenon DEF n, R
  <1>7. CASE ~(awaited(m) /\ phase # "Start")
    BY <1>2, <1>5, <1>7, Zenon DEF WithReply, n
  <1> QED
    BY <1>6, <1>7, Zenon

\* The values noted and kept, when an acceptable message of the handshake has been
\* answered.
LEMMA HandshakeNotes ==
  ASSUME RemoteInv, NEW m \in Messages, NEW writes \in 0 .. 2, HandshakeMessage(m, writes),
         acceptable(m), writes = Len(handshake_replies(m))
  PROVE  /\ features' = negotiated(m) /\ features' \subseteq IMPLEMENTED_FEATURES
         /\ (phase # "Configure" => features' = features)
         /\ read'.pings = read.pings + Cardinality(m.ping)
         /\ features' \subseteq read'.features /\ volume' = read'.volume
         /\ phase' = "Ready" => power' = read'.power
         /\ \/ awaited(m) /\ phase = "Configure" /\ phase' = "SetActive"
            \/ awaited(m) /\ phase = "SetActive" /\ phase' = "Start"
            \/ awaited(m) /\ phase = "Start" /\ phase' = "Ready"
            \/ ~awaited(m) /\ phase' = phase
            \/ ~awaited(m) /\ phase' = "Over"
         /\ handle' = IF phase' = "Ready" THEN "Open" ELSE handle
         /\ UNCHANGED <<commands, calls>>
  <1>1. /\ phase \in {"Configure", "SetActive", "Start"} /\ RemoteTypes
        /\ features \subseteq read.features /\ volume = read.volume
    BY HandshakePhases, Zenon DEF HandshakeMessage, RemoteInv, LatestInv
  <1>2. /\ Note(m) /\ features' = negotiated(m) /\ volume' = unwrap_or(m.volume, volume)
        /\ power' = IF phase = "Start" THEN unwrap_or(m.start, power) ELSE power
        /\ IF awaited(m) THEN phase' = next_phase
           ELSE phase' = "Over" \/ phase' = phase
        /\ handle' = IF phase' = "Ready" THEN "Open" ELSE handle
        /\ UNCHANGED <<commands, calls>>
    BY Zenon DEF HandshakeMessage, initial_volume
  <1>3. /\ read'.pings = read.pings + Cardinality(m.ping)
        /\ read'.features = (UNION {c.features : c \in configuration(m)}) \cup read.features
        /\ read'.power = unwrap_or(m.start, read.power) /\ read'.volume = unwrap_or(m.volume, read.volume)
    BY <1>2, Zenon DEF Note
  <1>4. negotiated(m) \subseteq IMPLEMENTED_FEATURES /\ features \subseteq IMPLEMENTED_FEATURES
    BY <1>1, FrameTypes, Zenon DEF RemoteTypes
  <1>5. phase # "Configure" => negotiated(m) = features
    <2> SUFFICES ASSUME phase # "Configure" PROVE negotiated(m) = features
      OBVIOUS
    <2>1. configuration(m) = {}
      BY Zenon DEF configuration
    <2>2. UNION {c.features : c \in configuration(m)} = {}
      BY <2>1, Zenon
    <2> QED
      BY <2>2, Zenon DEF negotiated
  <1>6. negotiated(m) \subseteq read'.features
    BY <1>1, <1>3, Zenon DEF negotiated
  <1>7. /\ phase = "Configure" => next_phase = "SetActive"
        /\ phase = "SetActive" => next_phase = "Start"
        /\ phase = "Start" => next_phase = "Ready"
    BY Zenon DEF next_phase
  <1>8. phase' = "Ready" => power' = read'.power
    <2> SUFFICES ASSUME phase' = "Ready" PROVE power' = read'.power
      OBVIOUS
    <2>1. phase = "Start" /\ awaited(m)
      BY <1>1, <1>2, <1>7, Zenon
    <2>2. m.start # {}
      BY <2>1, Zenon DEF awaited
    <2>3. unwrap_or(m.start, power) = unwrap_or(m.start, read.power)
      BY <2>2 DEF unwrap_or
    <2> QED
      BY <1>2, <1>3, <2>1, <2>3, Zenon
  <1>9. \/ awaited(m) /\ phase = "Configure" /\ phase' = "SetActive"
        \/ awaited(m) /\ phase = "SetActive" /\ phase' = "Start"
        \/ awaited(m) /\ phase = "Start" /\ phase' = "Ready"
        \/ ~awaited(m) /\ phase' = phase
        \/ ~awaited(m) /\ phase' = "Over"
    BY <1>1, <1>2, <1>7, Zenon
  <1> QED
    BY <1>1, <1>2, <1>3, <1>4, <1>5, <1>6, <1>8, <1>9, Zenon

\* No call is under way before the session is ready.
LEMMA CallsBefore ==
  ASSUME RemoteInv, Handshaking, RemoteTypes', UNCHANGED <<commands, calls>>,
         \A c \in Calls : Key(c) \notin Range(out'),
         Handshaking' => handle' = handle
  PROVE  CallsInv'
  <1>1. commands = << >> /\ Range(commands) = {} /\ handle = "Gone" /\ \A c \in Calls : calls[c].phase = "Idle"
    BY DEF RemoteInv, CallsInv, Range
  <1>2. \A c \in Calls : Key(c) \notin Range(out)
    <2>1. DOMAIN out = 1 .. Len(out)
      BY DEF RemoteInv, RemoteTypes
    <2>2. (\A i \in 1 .. Len(out) : out[i].kind # "Key") /\ \A c \in Calls : Key(c).kind = "Key"
      BY Zenon DEF RemoteInv, FramesInv, Key
    <2> QED
      BY <2>1, <2>2, Zenon DEF Range
  <1>3. \A c \in Calls : ~(calls[c].kind \in {"Key", "PowerKey"} /\ calls[c].ok)
    BY <1>2, Zenon DEF RemoteInv, CallsInv, CallInv
  <1>4. Range(commands') = {} /\ calls' = calls
    BY <1>1, Zenon
  <1>5. ASSUME NEW c \in Calls
        PROVE  CallInv(c)'
    <2>1. /\ c \notin Range(commands') /\ Key(c) \notin Range(out') /\ calls'[c].phase = "Idle"
          /\ ~(calls'[c].kind \in {"Key", "PowerKey"} /\ calls'[c].ok)
      BY <1>1, <1>3, <1>4, Zenon
    <2> QED
      BY <2>1, Zenon DEF CallInv
  <1> QED
    BY <1>1, <1>4, <1>5, Zenon DEF CallsInv

\* A message during the handshake, with the replies that could be written.
LEMMA HandshakeStep ==
  ASSUME RemoteInv, NEW m \in Messages, NEW writes \in 0 .. 2, HandshakeMessage(m, writes)
  PROVE  RemoteInv'
  <1>1. Handshaking /\ RemoteTypes /\ phase \in {"Configure", "SetActive", "Start"} /\ read.pings \in Nat
    BY HandshakePhases, Zenon DEF HandshakeMessage, RemoteInv, RemoteTypes
  <1>2. Handshaking' <=> phase' \in {"Configure", "SetActive", "Start"}
    BY HandshakePhases DEF Handshaking, Phases, Range
  <1>3. CASE ~(acceptable(m) /\ writes = Len(handshake_replies(m)))
    <2>1. /\ phase' = "Over" /\ UNCHANGED <<features, power, volume, read, commands, calls>>
      BY <1>3, Zenon DEF HandshakeMessage, state
    <2>2. out' = out \/ out' = WithPong(m)
      BY <1>1, <1>3, HandshakeOut, Zenon
    <2>3. Greeting(out', read.pings) \/ Greeting(out', read.pings + Cardinality(m.ping))
      BY <1>1, <2>2, HandshakeFrames, Zenon
    <2>4. /\ out' \in Seq(Frames) /\ Numbered(out') /\ Once(out')
          /\ \A i \in 1 .. Len(out') : out'[i].kind # "Key"
          /\ \A c \in Calls : Key(c) \notin Range(out')
      BY <2>3, Zenon DEF Greeting
    <2>5. RemoteTypes'
      BY <1>1, <2>1, <2>4, Zenon DEF RemoteTypes, IsInjective
    <2>6. ~Handshaking' /\ ~Ready'
      BY <1>2, <2>1, Zenon DEF Ready
    <2>7. CallsInv'
      BY <1>1, <2>1, <2>4, <2>5, <2>6, CallsBefore, Zenon
    <2>8. LatestInv'
      BY <2>1, <2>6, Zenon DEF RemoteInv, LatestInv
    <2>9. FramesInv'
      BY <2>1, <2>4, <2>6, Zenon DEF FramesInv, Numbered, Once, PongsIn
    <2> QED
      BY <2>5, <2>7, <2>8, <2>9, Zenon DEF RemoteInv
  <1>4. CASE acceptable(m) /\ writes = Len(handshake_replies(m))
    <2> DEFINE n == read.pings + Cardinality(m.ping)
               p == WithPong(m)
               l == Len(WithPong(m))
    <2>1. out' = WithReply(m)
      BY <1>1, <1>4, HandshakeOut, Zenon
    <2>2. /\ features' = negotiated(m) /\ features' \subseteq IMPLEMENTED_FEATURES
          /\ (phase # "Configure" => features' = features)
          /\ read'.pings = n
          /\ features' \subseteq read'.features /\ volume' = read'.volume
          /\ phase' = "Ready" => power' = read'.power
          /\ \/ awaited(m) /\ phase = "Configure" /\ phase' = "SetActive"
             \/ awaited(m) /\ phase = "SetActive" /\ phase' = "Start"
             \/ awaited(m) /\ phase = "Start" /\ phase' = "Ready"
             \/ ~awaited(m) /\ phase' = phase
             \/ ~awaited(m) /\ phase' = "Over"
          /\ handle' = IF phase' = "Ready" THEN "Open" ELSE handle
          /\ UNCHANGED <<commands, calls>>
      BY <1>4, HandshakeNotes, Zenon
    <2>3. /\ Greeting(out', n) /\ l \in Nat /\ Len(out) \in Nat /\ Len(out) <= l
          /\ \A i \in 1 .. Len(out) : p[i] = out[i]
          /\ awaited(m) /\ phase # "Start" =>
               /\ Len(out') = l + 1 /\ out'[l + 1] = Reply(phase, features')
               /\ \A i \in 1 .. l : out'[i] = p[i]
          /\ ~(awaited(m) /\ phase # "Start") => out' = p
      <3>1. /\ Greeting(WithReply(m), n) /\ l \in Nat /\ Len(out) \in Nat /\ Len(out) <= l
            /\ \A i \in 1 .. Len(out) : p[i] = out[i]
            /\ awaited(m) /\ phase # "Start" =>
                 /\ Len(WithReply(m)) = l + 1 /\ WithReply(m)[l + 1] = Reply(phase, negotiated(m))
                 /\ \A i \in 1 .. l : WithReply(m)[i] = p[i]
            /\ ~(awaited(m) /\ phase # "Start") => WithReply(m) = p
        BY <1>1, HandshakeFrames, Zenon
      <3> QED
        BY <2>1, <2>2, <3>1, Zenon
    <2> HIDE DEF n, p
    <2>4. /\ out' \in Seq(Frames) /\ Numbered(out') /\ Once(out') /\ PongsIn(out', Len(out')) = n
          /\ \A i \in 1 .. Len(out') : out'[i].kind # "Key"
          /\ \A c \in Calls : Key(c) \notin Range(out')
      BY <2>3, Zenon DEF Greeting
    <2>5. Len(out') \in Nat /\ Len(out) <= Len(out') /\ \A i \in 1 .. Len(out) : out'[i] = out[i] /\ i \in 1 .. Len(out')
      <3>1. CASE awaited(m) /\ phase # "Start"
        BY <2>3, <3>1
      <3>2. CASE ~(awaited(m) /\ phase # "Start")
        BY <2>3, <3>2 DEF p
      <3> QED
        BY <3>1, <3>2, Zenon
    <2>6. phase' = "SetActive" => \E j \in 1 .. Len(out') : out'[j] = Reply("Configure", features')
      <3>1. CASE phase = "Configure" /\ awaited(m)
        <4>1. l + 1 \in 1 .. Len(out') /\ out'[l + 1] = Reply("Configure", features')
          BY <2>3, <3>1
        <4> QED
          BY <4>1, Zenon
      <3>2. CASE phase = "SetActive"
        <4>1. PICK j \in 1 .. Len(out) : out[j] = Reply("Configure", features)
          BY <3>2, Zenon DEF RemoteInv, FramesInv
        <4>2. j \in 1 .. Len(out') /\ out'[j] = Reply("Configure", features')
          BY <2>2, <2>5, <3>2, <4>1, Zenon
        <4> QED
          BY <4>2, Zenon
      <3> QED
        BY <1>1, <2>2, <3>1, <3>2, Zenon
    <2>7. phase' \in {"Start", "Ready"} => ToldBefore(out', features', Len(out') + 1)
      <3>1. CASE phase = "SetActive" /\ awaited(m)
        <4>1. PICK j \in 1 .. Len(out) : out[j] = Reply("Configure", features)
          BY <3>1, Zenon DEF RemoteInv, FramesInv
        <4>2. /\ j \in 1 .. (Len(out') + 1) - 1 /\ l + 1 \in 1 .. (Len(out') + 1) - 1 /\ j < l + 1
              /\ out'[j] = Reply("Configure", features')
              /\ out'[l + 1] = Reply("SetActive", features')
          BY <2>2, <2>3, <2>5, <3>1, <4>1
        <4> QED
          BY <4>2, Zenon DEF ToldBefore
      <3>2. CASE phase = "Start"
        <4>1. PICK j, k \in 1 .. (Len(out) + 1) - 1 :
                j < k /\ out[j] = Reply("Configure", features) /\ out[k] = Reply("SetActive", features)
          BY <3>2, Zenon DEF RemoteInv, FramesInv, ToldBefore
        <4>2. j \in 1 .. Len(out) /\ k \in 1 .. Len(out)
          BY <2>3, <4>1
        <4>3. /\ j \in 1 .. (Len(out') + 1) - 1 /\ k \in 1 .. (Len(out') + 1) - 1
              /\ out'[j] = Reply("Configure", features') /\ out'[k] = Reply("SetActive", features')
          BY <2>2, <2>5, <3>2, <4>1, <4>2
        <4> QED
          BY <4>1, <4>3, Zenon DEF ToldBefore
      <3> QED
        BY <1>1, <2>2, <3>1, <3>2, Zenon
    <2>8. RemoteTypes'
      <3>1. n \in Nat
        BY <2>4, <2>5, PongsType, Zenon
      <3> QED
        BY <1>1, <2>2, <2>4, <3>1, Zenon DEF RemoteTypes, IsInjective
    <2>9. Handshaking' => handle' = handle
      BY <1>2, <2>2, Zenon
    <2>10. CallsInv'
      BY <1>1, <2>2, <2>4, <2>8, <2>9, CallsBefore, Zenon
    <2>11. LatestInv'
      BY <2>2, Zenon DEF LatestInv, Ready
    <2>12. FramesInv'
      BY <2>2, <2>4, <2>6, <2>7, Zenon DEF FramesInv, Numbered, Once, PongsIn, ToldBefore
    <2> QED
      BY <2>8, <2>10, <2>11, <2>12, Zenon DEF RemoteInv
  <1> QED
    BY <1>3, <1>4, Zenon

CallStates == [kind : {None, "Key", "PowerKey", "Close"},
               phase : {"Idle", "Sending", "Queued", "Answered", "Done"}, ok : BOOLEAN]

\* A step that puts nothing in the channel, sends no key and lets no key succeed.
LEMMA CallsOnly ==
  ASSUME RemoteInv, RemoteTypes', UNCHANGED features,
         \A c \in Calls :
           /\ c \in Range(commands') => c \in Range(commands)
           /\ Key(c) \in Range(out') <=> Key(c) \in Range(out)
           /\ calls'[c].kind = calls[c].kind
           /\ calls'[c].phase \in {"Idle", "Sending"} => calls'[c].phase = calls[c].phase
           /\ calls'[c].kind \in {"Key", "PowerKey"} /\ calls'[c].ok => calls[c].ok,
         ~Handshaking'
  PROVE  CallsInv'
  <1>1. ASSUME NEW c \in Calls
        PROVE  CallInv(c)'
    <2>1. CallInv(c)
      BY Zenon DEF RemoteInv, CallsInv
    <2> QED
      BY <2>1, Zenon DEF CallInv
  <1> QED
    BY <1>1, Zenon DEF CallsInv

\* The end of the session empties the channel and changes no result that was given.
LEMMA EndedFacts ==
  ASSUME RemoteInv, NEW cs, cs \in [Calls -> CallStates], Ended(cs)
  PROVE  /\ phase' = "Over" /\ ~Handshaking' /\ ~Ready'
         /\ commands' = << >> /\ commands' \in Seq(Calls) /\ IsInjective(commands') /\ Range(commands') = {}
         /\ calls' \in [Calls -> CallStates]
         /\ \A c \in Calls :
              /\ calls'[c].kind = cs[c].kind /\ calls'[c].ok = cs[c].ok
              /\ calls'[c].phase \in {"Idle", "Sending"} => calls'[c].phase = cs[c].phase
  <1>1. /\ phase' = "Over" /\ commands' = << >>
        /\ calls' = [c \in Calls |-> IF cs[c].phase = "Queued" THEN [cs[c] EXCEPT !.phase = "Answered"] ELSE cs[c]]
    BY Zenon DEF Ended
  <1>2. ~Handshaking' /\ ~Ready'
    BY <1>1 DEF Handshaking, Phases, Range, Ready
  <1>3. commands' \in Seq(Calls) /\ IsInjective(commands') /\ Range(commands') = {}
    BY <1>1 DEF IsInjective, Range
  <1>4. \A c \in Calls : /\ calls'[c] \in CallStates
                         /\ calls'[c].kind = cs[c].kind /\ calls'[c].ok = cs[c].ok
                         /\ calls'[c].phase \in {"Idle", "Sending"} => calls'[c].phase = cs[c].phase
    BY <1>1, Zenon DEF CallStates
  <1>5. calls' \in [Calls -> CallStates]
    BY <1>1, <1>4, Zenon
  <1> QED
    BY <1>1, <1>2, <1>3, <1>4, <1>5, Zenon

\* The calls have their type.
LEMMA CallsType ==
  ASSUME RemoteInv
  PROVE  calls \in [Calls -> CallStates]
  BY Zenon DEF RemoteInv, RemoteTypes, CallStates

\* The session ends with nothing sent.
LEMMA EndedStep ==
  ASSUME RemoteInv, NEW cs \in [Calls -> CallStates], Ended(cs), UNCHANGED <<features, out, read>>,
         \A c \in Calls :
           /\ cs[c].kind = calls[c].kind
           /\ cs[c].phase \in {"Idle", "Sending"} => cs[c].phase = calls[c].phase
           /\ cs[c].kind \in {"Key", "PowerKey"} /\ cs[c].ok => calls[c].ok
  PROVE  RemoteInv'
  <1>1. /\ phase' = "Over" /\ ~Handshaking' /\ ~Ready'
        /\ commands' = << >> /\ commands' \in Seq(Calls) /\ IsInjective(commands') /\ Range(commands') = {}
        /\ calls' \in [Calls -> CallStates]
        /\ \A c \in Calls :
             /\ calls'[c].kind = cs[c].kind /\ calls'[c].ok = cs[c].ok
             /\ calls'[c].phase \in {"Idle", "Sending"} => calls'[c].phase = cs[c].phase
    BY EndedFacts, Zenon
  <1>2. RemoteTypes'
    BY <1>1, Zenon DEF RemoteInv, RemoteTypes, CallStates
  <1>3. FramesInv'
    BY <1>1, FramesKept, Zenon DEF RemoteInv
  <1>4. LatestInv'
    BY <1>1, Zenon DEF RemoteInv, LatestInv
  <1>5. CallsInv'
    BY <1>1, <1>2, CallsOnly, Zenon
  <1> QED
    BY <1>2, <1>3, <1>4, <1>5, Zenon DEF RemoteInv

\* handle_inbound.
LEMMA InboundStep ==
  ASSUME RemoteInv, NEW m \in Messages, NEW writes \in 0 .. 2, Inbound(m, writes)
  PROVE  RemoteInv'
  <1>1. Ready /\ RemoteTypes /\ FramesInv /\ read.pings \in Nat /\ out \in Seq(Frames) /\ phase = "Ready"
    BY Zenon DEF Inbound, RemoteInv, RemoteTypes, Ready
  <1>2. /\ PingFrame \in Frames /\ PingFrame.kind = "Pong"
        /\ m.ping = {} \/ m.ping = {"Ping"}
    BY <1>1, FrameTypes, Zenon
  <1>3. /\ m.ping # {} => pong(m) = <<PingFrame>>
        /\ m.ping = {} => pong(m) = << >>
    BY Zenon DEF pong, PingFrame
  <1>4. /\ m.error # {} => writes = 0
        /\ out' = out \o SubSeq(pong(m), 1, writes) /\ writes <= Len(pong(m))
        /\ UNCHANGED <<features, handle>>
    <2>1. Len(<< >>) = 0 /\ Len(pong(m)) >= 0
      BY <1>3
    <2> QED
      BY <2>1 DEF Inbound
  <1>5. /\ writes < Len(pong(m)) \/ m.ping = {} \/ m.error # {} => out' = out
        /\ ~(writes < Len(pong(m))) /\ m.ping # {} => out' = Append(out, PingFrame)
    <2>1. CASE m.ping = {}
      <3>1. Len(pong(m)) = 0 /\ writes = 0 /\ out' = out \o SubSeq(<< >>, 1, 0)
        BY <1>3, <1>4, <2>1
      <3> QED
        BY <1>1, <1>2, <2>1, <3>1, Written, Zenon
    <2>2. CASE m.ping # {}
      <3>1. Len(pong(m)) = 1 /\ writes \in {0, 1} /\ out' = out \o SubSeq(<<PingFrame>>, 1, writes)
        BY <1>3, <1>4, <2>2
      <3>2. out \o SubSeq(<<PingFrame>>, 1, 0) = out /\ out \o SubSeq(<<PingFrame>>, 1, 1) = Append(out, PingFrame)
        BY <1>1, <1>2, Written
      <3>3. (writes < Len(pong(m)) <=> writes = 0) /\ (writes # 0 => writes = 1)
        BY <3>1
      <3> QED
        BY <1>4, <2>2, <3>1, <3>2, <3>3, Zenon
    <2> QED
      BY <2>1, <2>2, Zenon
  <1>6. calls \in [Calls -> CallStates]
    BY CallsType, Zenon
  <1>7. CASE m.error # {} \/ writes < Len(pong(m))
    <2>1. Ended(calls) /\ UNCHANGED read
      BY <1>7, Zenon DEF Inbound
    <2>2. out' = out
      BY <1>5, <1>7, Zenon
    <2> QED
      BY <1>4, <1>6, <2>1, <2>2, EndedStep, Zenon
  <1>8. CASE ~(m.error # {} \/ writes < Len(pong(m)))
    <2>1. FramesInv' /\ out' \in Seq(Frames) /\ \A c \in Calls : Key(c) \in Range(out') <=> Key(c) \in Range(out)
      <3>1. phase' \in {"Ready", "Over"} /\ (phase' = "Ready" => read'.pings = read.pings + Cardinality(m.ping))
        BY <1>1, <1>8 DEF Inbound, Ended, Note
      <3>2. CASE m.ping = {}
        <4>1. out' = out /\ Cardinality(m.ping) = 0
          BY <1>5, <3>2, FS_EmptySet, Zenon
        <4>2. ~Handshaking' /\ (phase' = "Ready" => read'.pings = read.pings)
          BY <3>1, <4>1, <1>1 DEF Handshaking, Phases, Range
        <4>3. FramesInv'
          BY <1>1, <1>4, <3>1, <4>1, <4>2, FramesKept, Zenon
        <4> QED
          BY <1>1, <4>1, <4>3, Zenon
      <3>3. CASE m.ping # {}
        <4>1. out' = Append(out, PingFrame) /\ Cardinality(m.ping) = 1
          BY <1>2, <1>5, <1>8, <3>3, FS_Singleton, Zenon
        <4>2. phase' = "Ready" => read'.pings = read.pings + 1
          BY <3>1, <4>1, Zenon
        <4>3. FramesInv' /\ out' \in Seq(Frames)
          BY <1>1, <1>2, <1>4, <3>1, <4>1, <4>2, ReadyFrame, Zenon
        <4>4. Range(out') = Range(out) \cup {PingFrame} /\ \A c \in Calls : Key(c) # PingFrame
          <5>1. Range(out') = Range(out) \cup {PingFrame}
            BY <1>1, <1>2, <4>1, AppendRange
          <5>2. \A c \in Calls : Key(c).kind = "Key"
            BY Zenon DEF Key
          <5> QED
            BY <1>2, <5>1, <5>2, Zenon
        <4> QED
          BY <4>3, <4>4, Zenon
      <3> QED
        BY <3>2, <3>3, Zenon
    <2>2. CASE Invalid \in m.volume
      <3>1. Ended(calls) /\ UNCHANGED <<features, read>>
        BY <1>4, <1>8, <2>2, Zenon DEF Inbound
      <3>2. /\ phase' = "Over" /\ ~Handshaking' /\ ~Ready'
            /\ commands' \in Seq(Calls) /\ IsInjective(commands') /\ Range(commands') = {}
            /\ calls' \in [Calls -> CallStates]
            /\ \A c \in Calls :
                 /\ calls'[c].kind = calls[c].kind /\ calls'[c].ok = calls[c].ok
                 /\ calls'[c].phase \in {"Idle", "Sending"} => calls'[c].phase = calls[c].phase
        BY <1>6, <3>1, EndedFacts, Zenon
      <3>3. RemoteTypes'
        BY <2>1, <3>1, <3>2, Zenon DEF RemoteInv, RemoteTypes, CallStates
      <3>4. CallsInv'
        BY <2>1, <3>1, <3>2, <3>3, CallsOnly, Zenon
      <3>5. LatestInv'
        BY <3>1, <3>2, Zenon DEF RemoteInv, LatestInv
      <3> QED
        BY <2>1, <3>3, <3>4, <3>5, Zenon DEF RemoteInv
    <2>3. CASE Invalid \notin m.volume
      <3>1. /\ power' = unwrap_or(m.start, power) /\ volume' = unwrap_or(m.volume, volume)
            /\ Note(m) /\ UNCHANGED <<phase, commands, calls>>
        BY <1>8, <2>3, Zenon DEF Inbound
      <3>2. /\ read'.pings \in Nat /\ read.features \subseteq read'.features
            /\ read'.power = unwrap_or(m.start, read.power) /\ read'.volume = unwrap_or(m.volume, read.volume)
        <4>1. Cardinality(m.ping) \in Nat
          BY <1>2, FS_EmptySet, FS_Singleton
        <4> QED
          BY <1>1, <3>1, <4>1 DEF Note
      <3>3. RemoteTypes'
        BY <1>4, <2>1, <3>1, <3>2, Zenon DEF RemoteInv, RemoteTypes, IsInjective
      <3>4. ~Handshaking'
        BY <1>1, <3>1 DEF Handshaking, Phases, Range
      <3>5. CallsInv'
        BY <1>4, <2>1, <3>1, <3>3, <3>4, CallsOnly, Zenon
      <3>6. LatestInv'
        BY <1>1, <1>4, <3>1, <3>2, Zenon DEF RemoteInv, LatestInv, Ready
      <3> QED
        BY <2>1, <3>3, <3>5, <3>6, Zenon DEF RemoteInv
    <2> QED
      BY <2>2, <2>3, Zenon
  <1> QED
    BY <1>7, <1>8, Zenon

\* A call that succeeds is the only one that changes.
LEMMA SucceedFacts ==
  ASSUME RemoteInv, NEW c \in Calls
  PROVE  /\ succeed(c) \in [Calls -> CallStates]
         /\ \A d \in Calls :
              /\ succeed(c)[d].kind = calls[d].kind
              /\ succeed(c)[d].phase \in {"Idle", "Sending"} => succeed(c)[d].phase = calls[d].phase
              /\ d # c => succeed(c)[d] = calls[d]
  <1>1. calls \in [Calls -> CallStates]
    BY CallsType, Zenon
  <1>2. \A d \in Calls :
          /\ succeed(c)[d] \in CallStates /\ succeed(c)[d].kind = calls[d].kind
          /\ succeed(c)[d].phase \in {"Idle", "Sending"} => succeed(c)[d].phase = calls[d].phase
          /\ d # c => succeed(c)[d] = calls[d]
    BY <1>1, Zenon DEF succeed, CallStates
  <1>3. succeed(c) \in [Calls -> CallStates]
    BY <1>1, <1>2, Zenon DEF succeed
  <1> QED
    BY <1>2, <1>3, Zenon

\* RemoteCommand::Key and RemoteCommand::Close.
LEMMA CommandStep ==
  ASSUME RemoteInv, Command
  PROVE  RemoteInv'
  <1>a. PICK c : c = Head(commands)
    OBVIOUS
  <1>1. /\ Ready /\ commands # << >> /\ UNCHANGED <<features, power, volume, read, handle>>
        /\ commands \in Seq(Calls) /\ IsInjective(commands)
    BY Zenon DEF Command, TakeKey, TakeClose, state, RemoteInv, RemoteTypes
  <1>2. /\ c \in Calls /\ c \in Range(commands) /\ Tail(commands) \in Seq(Calls)
        /\ Range(Tail(commands)) = Range(commands) \ {c} /\ IsInjective(Tail(commands))
    BY <1>a, <1>1, TakeHead, Zenon
  <1>3. /\ calls \in [Calls -> CallStates] /\ succeed(c) \in [Calls -> CallStates]
        /\ \A d \in Calls :
             /\ succeed(c)[d].kind = calls[d].kind
             /\ succeed(c)[d].phase \in {"Idle", "Sending"} => succeed(c)[d].phase = calls[d].phase
             /\ d # c => succeed(c)[d] = calls[d]
    BY <1>2, CallsType, SucceedFacts, Zenon
  <1>4. CASE Ended(calls) /\ UNCHANGED out
    BY <1>1, <1>3, <1>4, EndedStep, Zenon
  <1>5. CASE Ended(succeed(c)) /\ UNCHANGED out /\ calls[c].kind = "Close"
    <2>1. \A d \in Calls : succeed(c)[d].kind \in {"Key", "PowerKey"} /\ succeed(c)[d].ok => calls[d].ok
      BY <1>3, <1>5, Zenon
    <2> QED
      BY <1>1, <1>3, <1>5, <2>1, EndedStep, Zenon
  <1>6. CASE /\ calls[c].kind # "Close" /\ out' = Append(out, Key(c))
             /\ commands' = Tail(commands) /\ calls' = succeed(c) /\ UNCHANGED phase
    <2>1. /\ RemoteTypes /\ FramesInv /\ out \in Seq(Frames) /\ phase = "Ready" /\ CallInv(c)
          /\ Key(c) \in Frames /\ Key(c).kind = "Key"
      BY <1>1, <1>2, Zenon DEF RemoteInv, RemoteTypes, CallsInv, Ready, Key, Frames
    <2>2. Key(c) \notin Range(out)
      BY <1>2, <2>1, Zenon DEF CallInv
    <2>3. FramesInv' /\ out' \in Seq(Frames)
      BY <1>1, <1>2, <1>6, <2>1, <2>2, ReadyFrame, Zenon
    <2>4. Range(out') = Range(out) \cup {Key(c)} /\ \A d \in Calls : Key(d) = Key(c) => d = c
      BY <1>6, <2>1, AppendRange DEF Key
    <2>5. RemoteTypes'
      BY <1>1, <1>2, <1>3, <1>6, <2>1, <2>3, Zenon DEF RemoteTypes, CallStates
    <2>6. LatestInv'
      BY <1>1, <1>6, <2>1, Zenon DEF RemoteInv, LatestInv, Ready
    <2>7. ~Handshaking'
      BY <1>6, <2>1 DEF Handshaking, Phases, Range
    <2>8. ASSUME NEW d \in Calls PROVE CallInv(d)'
      <3>1. CallInv(d)
        BY Zenon DEF RemoteInv, CallsInv
      <3>2. CASE d # c
        <4>1. /\ d \in Range(commands') <=> d \in Range(commands)
              /\ Key(d) \in Range(out') <=> Key(d) \in Range(out)
              /\ calls'[d] = calls[d] /\ features' = features
          BY <1>1, <1>2, <1>3, <1>6, <2>4, <3>2, Zenon
        <4> QED
          BY <3>1, <4>1, Zenon DEF CallInv
      <3>3. CASE d = c
        <4>1. /\ c \notin Range(commands') /\ Key(c) \in Range(out') /\ calls'[c].kind = calls[c].kind
              /\ calls'[c].phase \in {"Idle", "Sending"} => calls'[c].phase = calls[c].phase
          BY <1>2, <1>3, <1>6, <2>4, Zenon
        <4> QED
          BY <1>1, <1>2, <1>6, <2>1, <3>3, <4>1, Zenon DEF CallInv
      <3> QED
        BY <3>2, <3>3, Zenon
    <2> QED
      BY <2>3, <2>5, <2>6, <2>7, <2>8, Zenon DEF RemoteInv, CallsInv
  <1> QED
    BY <1>a, <1>4, <1>5, <1>6, Zenon DEF Command, TakeKey, TakeClose

\* Steps of callers that touch neither channel nor frames.
LEMMA CallerOnly ==
  ASSUME RemoteInv, calls' \in [Calls -> CallStates], UNCHANGED <<phase, features, power, volume, commands, out, read>>,
         Handshaking => UNCHANGED <<calls, handle>>,
         \A c \in Calls : CallInv(c)'
  PROVE  RemoteInv'
  <1>1. RemoteTypes'
    BY Zenon DEF RemoteInv, RemoteTypes, CallStates, IsInjective
  <1>2. FramesInv'
    BY FramesKept, Zenon DEF RemoteInv
  <1>3. LatestInv' /\ (Handshaking' => Handshaking)
    BY Zenon DEF RemoteInv, LatestInv, Ready, Handshaking
  <1>4. CallsInv'
    BY <1>3, Zenon DEF RemoteInv, CallsInv
  <1> QED
    BY <1>1, <1>2, <1>3, <1>4, Zenon DEF RemoteInv

\* A call is made.
LEMMA IssueStep ==
  ASSUME RemoteInv, NEW c \in Calls, NEW kind \in {"Key", "PowerKey", "Close"}, Issue(c, kind)
  PROVE  RemoteInv'
  <1>1. /\ calls \in [Calls -> CallStates] /\ handle = "Open" /\ calls[c].phase = "Idle"
        /\ UNCHANGED <<phase, features, power, volume, commands, out, read>>
    BY CallsType, Zenon DEF Issue, state
  <1>2. PICK new : /\ new = [kind |-> kind, ok |-> FALSE,
                             phase |-> IF required(kind) \subseteq features THEN "Sending" ELSE "Done"]
                   /\ calls' = [calls EXCEPT ![c] = new]
    BY Zenon DEF Issue
  <1>3. /\ new \in CallStates /\ new.kind = kind /\ new.ok = FALSE
        /\ new.phase = "Sending" => required(kind) \subseteq features
    BY <1>2, Zenon DEF CallStates
  <1>4. ~Handshaking
    BY <1>1, Zenon DEF RemoteInv, CallsInv
  <1>5. calls' \in [Calls -> CallStates] /\ calls'[c] = new /\ \A d \in Calls : d # c => calls'[d] = calls[d]
    BY <1>1, <1>2, <1>3, Zenon
  <1>6. ASSUME NEW d \in Calls PROVE CallInv(d)'
    <2>1. CallInv(d)
      BY Zenon DEF RemoteInv, CallsInv
    <2>2. CASE d # c
      BY <1>1, <1>5, <2>1, <2>2, Zenon DEF CallInv
    <2>3. CASE d = c
      <3>1. c \notin Range(commands) /\ Key(c) \notin Range(out)
        BY <1>1, <2>1, <2>3, Zenon DEF CallInv
      <3> QED
        BY <1>1, <1>3, <1>5, <2>3, <3>1, Zenon DEF CallInv
    <2> QED
      BY <2>2, <2>3, Zenon
  <1> QED
    BY <1>1, <1>4, <1>5, <1>6, CallerOnly, Zenon

\* A call puts its command in the channel, or finds it closed.
LEMMA SendStep ==
  ASSUME RemoteInv, NEW c \in Calls, Send(c)
  PROVE  RemoteInv'
  <1>1. /\ calls \in [Calls -> CallStates] /\ calls[c].phase = "Sending" /\ CallInv(c)
        /\ UNCHANGED <<phase, features, power, volume, out, read, handle>>
    BY CallsType, Zenon DEF Send, state, RemoteInv, CallsInv
  <1>2. ~Handshaking
    BY <1>1, Zenon DEF RemoteInv, CallsInv
  <1>3. ASSUME NEW p \in {"Queued", "Done"}, calls' = [calls EXCEPT ![c].phase = p]
        PROVE  /\ calls' \in [Calls -> CallStates] /\ \A d \in Calls : d # c => calls'[d] = calls[d]
               /\ calls'[c].phase = p /\ calls'[c].kind = calls[c].kind /\ calls'[c].ok = calls[c].ok
    BY <1>1, <1>3, Zenon DEF CallStates
  <1>4. CASE UNCHANGED commands /\ calls' = [calls EXCEPT ![c].phase = "Done"]
    <2>1. ASSUME NEW d \in Calls PROVE CallInv(d)'
      <3>1. CallInv(d)
        BY Zenon DEF RemoteInv, CallsInv
      <3> QED
        BY <1>1, <1>3, <1>4, <3>1, Zenon DEF CallInv
    <2> QED
      BY <1>1, <1>2, <1>3, <1>4, <2>1, CallerOnly, Zenon
  <1>5. CASE commands' = Append(commands, c) /\ calls' = [calls EXCEPT ![c].phase = "Queued"]
    <2>1. c \notin Range(commands) /\ Key(c) \notin Range(out) /\ commands \in Seq(Calls) /\ IsInjective(commands)
      BY <1>1, Zenon DEF CallInv, RemoteInv, RemoteTypes
    <2>2. /\ Range(commands') = Range(commands) \cup {c} /\ commands' \in Seq(Calls) /\ IsInjective(commands')
      BY <1>5, <2>1, AppendRange, AppendInjective
    <2>3. ASSUME NEW d \in Calls PROVE CallInv(d)'
      <3>1. CallInv(d)
        BY Zenon DEF RemoteInv, CallsInv
      <3>2. CASE d # c
        BY <1>1, <1>3, <1>5, <2>2, <3>1, <3>2, Zenon DEF CallInv
      <3>3. CASE d = c
        BY <1>1, <1>3, <1>5, <2>1, <2>2, <3>3, Zenon DEF CallInv
      <3> QED
        BY <3>2, <3>3, Zenon
    <2>4. RemoteTypes'
      BY <1>1, <1>3, <1>5, <2>2, Zenon DEF RemoteInv, RemoteTypes, CallStates
    <2>5. FramesInv'
      BY <1>1, FramesKept, Zenon DEF RemoteInv
    <2>6. LatestInv' /\ ~Handshaking'
      BY <1>1, <1>2, Zenon DEF RemoteInv, LatestInv, Ready, Handshaking
    <2> QED
      BY <2>3, <2>4, <2>5, <2>6, Zenon DEF RemoteInv, CallsInv
  <1> QED
    BY <1>4, <1>5, Zenon DEF Send

\* Every step of a caller keeps the invariant.
LEMMA CallerStep ==
  ASSUME RemoteInv, Caller
  PROVE  RemoteInv'
  <1>1. calls \in [Calls -> CallStates]
    BY CallsType, Zenon
  <1>2. ASSUME NEW c \in Calls, NEW kind \in {"Key", "PowerKey", "Close"}, Issue(c, kind)
        PROVE  RemoteInv'
    BY <1>2, IssueStep, Zenon
  <1>3. ASSUME NEW c \in Calls, Send(c)
        PROVE  RemoteInv'
    BY <1>3, SendStep, Zenon
  <1>4. ASSUME NEW c \in Calls, Proceed(c) \/ CancelKey(c)
        PROVE  RemoteInv'
    <2>1. /\ calls[c].phase # "Idle" /\ calls' = [calls EXCEPT ![c].phase = "Done"]
          /\ UNCHANGED <<phase, features, power, volume, commands, out, read, handle>>
      BY <1>4, Zenon DEF Proceed, CancelKey, state
    <2>2. /\ calls' \in [Calls -> CallStates] /\ \A d \in Calls : d # c => calls'[d] = calls[d]
          /\ calls'[c].phase = "Done" /\ calls'[c].kind = calls[c].kind /\ calls'[c].ok = calls[c].ok
      BY <1>1, <2>1, Zenon DEF CallStates
    <2>3. ~Handshaking
      BY <2>1, Zenon DEF RemoteInv, CallsInv
    <2>4. ASSUME NEW d \in Calls PROVE CallInv(d)'
      <3>1. CallInv(d)
        BY Zenon DEF RemoteInv, CallsInv
      <3> QED
        BY <2>1, <2>2, <3>1, Zenon DEF CallInv
    <2> QED
      BY <2>1, <2>2, <2>3, <2>4, CallerOnly, Zenon
  <1>5. CASE Drop
    <2>1. /\ phase' = "Over" /\ commands' = << >> /\ UNCHANGED <<features, out, read>>
          /\ calls' = [c \in Calls |-> IF calls[c].phase \in {"Sending", "Queued", "Answered"}
                                       THEN [calls[c] EXCEPT !.phase = "Done", !.ok = FALSE] ELSE calls[c]]
      BY <1>5, Zenon DEF Drop, state
    <2>a. phase' = "Over" /\ commands' = << >>
      BY <2>1, Zenon
    <2>2. \A c \in Calls :
            /\ calls'[c] \in CallStates /\ calls'[c].kind = calls[c].kind
            /\ calls'[c].phase \in {"Idle", "Sending"} => calls'[c].phase = calls[c].phase
            /\ calls'[c].ok => calls[c].ok
      BY <1>1, <2>1, Zenon DEF CallStates
    <2>3. /\ commands' \in Seq(Calls) /\ IsInjective(commands') /\ Range(commands') = {}
          /\ ~Handshaking' /\ ~Ready'
      <3>1. commands' \in Seq(Calls) /\ IsInjective(commands') /\ Range(commands') = {}
        BY <2>a DEF IsInjective, Range
      <3>2. ~Handshaking' /\ ~Ready'
        BY <2>a DEF Handshaking, Phases, Range, Ready
      <3> QED
        BY <3>1, <3>2, Zenon
    <2>4. calls' \in [Calls -> CallStates]
      BY <2>1, <2>2, Zenon
    <2>5. RemoteTypes'
      BY <2>1, <2>3, <2>4, Zenon DEF RemoteInv, RemoteTypes, CallStates
    <2>6. CallsInv'
      BY <2>1, <2>2, <2>3, <2>5, CallsOnly, Zenon
    <2>7. FramesInv'
      BY <2>1, FramesKept, Zenon DEF RemoteInv
    <2>8. LatestInv'
      BY <2>1, <2>3, Zenon DEF RemoteInv, LatestInv
    <2> QED
      BY <2>5, <2>6, <2>7, <2>8, Zenon DEF RemoteInv
  <1> QED
    BY <1>2, <1>3, <1>4, <1>5, Zenon DEF Caller

\* Every message of the device keeps the invariant.
LEMMA DeviceStep ==
  ASSUME RemoteInv, Device
  PROVE  RemoteInv'
  <1>1. ASSUME NEW m \in Messages, NEW writes \in 0 .. 2, HandshakeMessage(m, writes)
        PROVE  RemoteInv'
    BY <1>1, HandshakeStep, Zenon
  <1>2. ASSUME NEW m \in Messages, NEW writes \in 0 .. 2, Inbound(m, writes)
        PROVE  RemoteInv'
    BY <1>2, InboundStep, Zenon
  <1>3. CASE ReadFails
    <2>1. Ended(calls) /\ UNCHANGED <<features, out, read>> /\ calls \in [Calls -> CallStates]
      BY <1>3, CallsType, Zenon DEF ReadFails, state
    <2> QED
      BY <2>1, EndedStep, Zenon
  <1>4. CASE HandshakeFails
    <2>1. phase' = "Over" /\ UNCHANGED <<features, out, read, commands, calls>>
      BY <1>4, Zenon DEF HandshakeFails, state
    <2>2. ~Handshaking' /\ ~Ready'
      BY <2>1 DEF Handshaking, Phases, Range, Ready
    <2>3. RemoteTypes'
      BY <2>1, Zenon DEF RemoteInv, RemoteTypes, IsInjective
    <2>4. CallsInv'
      BY <2>1, <2>2, <2>3, CallsOnly, Zenon
    <2>5. FramesInv'
      BY <2>1, FramesKept, Zenon DEF RemoteInv
    <2>6. LatestInv'
      BY <2>1, <2>2, Zenon DEF RemoteInv, LatestInv
    <2> QED
      BY <2>3, <2>4, <2>5, <2>6, Zenon DEF RemoteInv
  <1> QED
    BY <1>1, <1>2, <1>3, <1>4, Zenon DEF Device

\* The invariant holds before the session connects.
LEMMA RemoteInitInv ==
  ASSUME Init PROVE RemoteInv
  <1>1. /\ phase = "Configure" /\ features = {} /\ power = None /\ volume = None
        /\ commands = << >> /\ handle = "Gone" /\ out = << >>
        /\ calls = [c \in Calls |-> [kind |-> None, phase |-> "Idle", ok |-> FALSE]]
        /\ read = [features |-> {}, power |-> None, volume |-> None, pings |-> 0]
    BY Zenon DEF Init
  <1>2. RemoteTypes
    BY <1>1 DEF RemoteTypes, IsInjective
  <1>3. LatestInv
    BY <1>1, Zenon DEF LatestInv, Ready
  <1>4. \A c \in Calls : calls[c].ok = FALSE /\ calls[c].phase = "Idle"
    BY <1>1, Zenon
  <1>5. Range(commands) = {} /\ Range(out) = {}
    BY <1>1 DEF Range
  <1>6. CallsInv
    BY <1>1, <1>4, <1>5, Zenon DEF CallsInv, CallInv
  <1>7. PongsIn(out, Len(out)) = 0
    <2>1. {i \in 1 .. Len(out) : out[i].kind = "Pong"} = {}
      BY <1>1
    <2> QED
      BY <2>1, FS_EmptySet, Zenon DEF PongsIn
  <1>8. Len(out) = 0 /\ 1 .. Len(out) = {} /\ read.pings = 0
    BY <1>1
  <1>9. FramesInv
    BY <1>1, <1>7, <1>8, Zenon DEF FramesInv, Numbered, Once
  <1> QED
    BY <1>2, <1>3, <1>6, <1>9, Zenon DEF RemoteInv

\* A remote that is not connected yet, or waits while the application pairs.
LEMMA RemoteKept ==
  ASSUME RemoteInv, UNCHANGED vars
  PROVE  RemoteInv'
  <1>1. /\ UNCHANGED <<phase, features, power, volume, commands, calls, handle, out, read>>
    BY Zenon DEF vars, state
  <1>2. \A c \in Calls : CallInv(c)'
    BY <1>1, Zenon DEF RemoteInv, CallsInv, CallInv
  <1> QED
    BY <1>1, <1>2, CallsType, CallerOnly, Zenon

\* The remote session, whatever the device sends and wherever a write stops, is
\* always in a state the invariant describes.
THEOREM RemoteInductive == AndroidTvSafety => []RemoteInv
  <1>1. AndroidTvInit => RemoteInv
    BY RemoteInitInv, Zenon DEF AndroidTvInit
  <1>2. RemoteInv /\ [AndroidTvNext]_android_tv_vars => RemoteInv'
    BY DeviceStep, CommandStep, CallerStep, RemoteKept, Zenon DEF AndroidTvNext, Pairing, Remote, Connect, android_tv_vars, Next
  <1> QED
    BY <1>1, <1>2, PTL DEF AndroidTvSafety

\* The handle of a ready session shows the latest power state and volume.
THEOREM StateSafe == AndroidTvSafety => []StateIsLatest
  <1>1. RemoteInv => StateIsLatest
    BY Zenon DEF RemoteInv, LatestInv, StateIsLatest, Ready
  <1> QED
    BY <1>1, RemoteInductive, PTL

\* Pings are answered in order, each with its own value.
THEOREM PingsSafe == AndroidTvSafety => []PingsAreAnswered
  <1>1. ASSUME RemoteInv PROVE PingsAreAnswered
    <2>1. DOMAIN out = 1 .. Len(out)
      BY DEF RemoteInv, RemoteTypes
    <2>2. \A n : Pongs(n) = PongsIn(out, n)
      BY Zenon DEF Pongs, PongsIn
    <2> QED
      BY <1>1, <2>1, <2>2, Zenon DEF RemoteInv, FramesInv, Numbered, PingsAreAnswered
  <1> QED
    BY <1>1, RemoteInductive, PTL

\* Keys go to a device with the features they need, after the whole handshake.
THEOREM KeysNegotiatedSafe == AndroidTvSafety => []KeysAreNegotiated
  <1>1. ASSUME RemoteInv PROVE KeysAreNegotiated
    <2> SUFFICES ASSUME NEW i \in DOMAIN out, out[i].kind = "Key"
                 PROVE  /\ {"KEY"} \cup (IF calls[out[i].of].kind = "PowerKey" THEN {"POWER"} ELSE {})
                             \subseteq read.features \cap IMPLEMENTED_FEATURES
                        /\ ToldBefore(out, features, i)
      BY Zenon DEF KeysAreNegotiated, ToldBefore
    <2>1. i \in 1 .. Len(out) /\ out[i] \in Frames
      BY <1>1 DEF RemoteInv, RemoteTypes
    <2>2. out[i].of \in Calls /\ ToldBefore(out, features, i)
      BY <1>1, <2>1, Zenon DEF RemoteInv, FramesInv
    <2>3. PICK c \in Calls : c = out[i].of
      BY <2>2, Zenon
    <2>4. out[i] = Key(c)
      BY <2>1, <2>3, Zenon DEF Frames, Key
    <2>5. Key(c) \in Range(out) /\ CallInv(c)
      BY <1>1, <2>4, Zenon DEF Range, RemoteInv, CallsInv
    <2>6. calls[c].kind \in {"Key", "PowerKey"} /\ required(calls[c].kind) \subseteq features
      BY <2>5, Zenon DEF CallInv
    <2>7. {"KEY"} \cup (IF calls[c].kind = "PowerKey" THEN {"POWER"} ELSE {}) \subseteq features
      BY <2>6, Zenon DEF required
    <2>8. features \subseteq read.features \cap IMPLEMENTED_FEATURES
      BY <1>1, Zenon DEF RemoteInv, RemoteTypes, LatestInv
    <2> QED
      BY <2>2, <2>3, <2>7, <2>8, Zenon
  <1> QED
    BY <1>1, RemoteInductive, PTL

\* A key is sent once at most, and has been sent when its call succeeded.
THEOREM KeysOnceSafe == AndroidTvSafety => []KeysAreSentOnce
  <1>1. ASSUME RemoteInv PROVE KeysAreSentOnce
    <2> SUFFICES ASSUME NEW c \in Calls
                 PROVE  /\ Cardinality({i \in DOMAIN out : out[i] = Key(c)}) <= 1
                        /\ calls[c].kind \in {"Key", "PowerKey"} /\ calls[c].ok => Key(c) \in Range(out)
      BY Zenon DEF KeysAreSentOnce
    <2> DEFINE At == {i \in DOMAIN out : out[i] = Key(c)}
    <2>1. DOMAIN out = 1 .. Len(out) /\ Key(c).kind = "Key" /\ CallInv(c)
      BY <1>1 DEF RemoteInv, RemoteTypes, CallsInv, Key
    <2>2. \A i, j \in At : i = j
      BY <1>1, <2>1, Zenon DEF RemoteInv, FramesInv, Once
    <2>3. At = {} \/ \E i : At = {i}
      BY <2>2, Zenon
    <2>4. Cardinality(At) = 0 \/ Cardinality(At) = 1
      BY <2>3, FS_EmptySet, FS_Singleton, Zenon
    <2>5. Cardinality(At) <= 1
      BY <2>4
    <2> QED
      BY <2>1, <2>5, Zenon DEF CallInv
  <1> QED
    BY <1>1, RemoteInductive, PTL
=============================================================================
