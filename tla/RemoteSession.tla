--------------------------- MODULE RemoteSession ---------------------------
(* The Android TV remote (src/src/android_tv/remote_session.rs, remote.rs):   *)
(* the handshake of RemoteSession::start, the task run_remote that owns the   *)
(* connection afterwards, and the handle whose calls send it commands.        *)
(*                                                                            *)
(* The device is external: it sends any message at any time, also several     *)
(* fields in one.  A write of the code succeeds or fails (an error or         *)
(* EXCHANGE_TIMEOUT).  Ping values and key codes are the number of the ping   *)
(* and the call.                                                              *)
EXTENDS Integers, Sequences, FiniteSets, Functions

CONSTANTS
  None,
  Calls,                    \* calls of the handle, each made once
  Announcements,            \* the sets of features a device may announce
  IMPLEMENTED_FEATURES,
  Volumes,
  MAX_HANDSHAKE_MESSAGES,   \* for each message awaited: 32 in the code
  COMMAND_QUEUE_CAPACITY,   \* 16 in the code
  MaxFields,                \* fields set in a message
  MaxMessages,              \* messages after the handshake
  MaxPings                  \* pings of the device, in all

ASSUME RemoteAssumption ==
  /\ {MAX_HANDSHAKE_MESSAGES, COMMAND_QUEUE_CAPACITY} \subseteq Nat \ {0}
  /\ {MaxFields, MaxMessages, MaxPings} \subseteq Nat
  /\ None \notin Calls \cup Volumes

VARIABLES
  phase,      \* what the handshake waits for, "Ready", or "Over"
  seen,       \* messages read in this phase
  features, power, volume,
  commands,   \* the command channel: calls
  calls,      \* [kind, phase, ok]
  handle,     \* the AndroidTvRemote: "Open", "Closing", or "Gone" when there is none
  \* Not in the code:
  out,        \* the frames the device has been sent
  read        \* [features, power, volume, pings]: the latest of each in the messages
              \* that did not end the session

state == <<features, power, volume>>
vars == <<phase, seen, state, commands, calls, handle, out, read>>

Invalid == "Invalid"
Phases == <<"Configure", "SetActive", "Start">>
Handshaking == phase \in Range(Phases)
Ready == phase = "Ready"

\* An Option is a set of at most one element.
Option(S) == {{}} \cup {{x} : x \in S}
unwrap_or(option, default) == IF option = {} THEN default ELSE CHOOSE x \in option : TRUE

\* RemoteMessage: configure is the features announced and whether the device
\* information is acceptable.
Messages ==
  {m \in [error : Option({"Error"}), ping : Option({"Ping"}), set_active : Option({"SetActive"}),
          configure : Option([features : Announcements, valid : BOOLEAN]),
          start : Option(BOOLEAN), volume : Option(Volumes \cup {Invalid})] :
     Cardinality({f \in DOMAIN m : m[f] # {}}) <= MaxFields}

Pong(n) == [kind |-> "Pong", of |-> n]
Reply(kind, fs) == [kind |-> kind, of |-> fs]
Key(c) == [kind |-> "Key", of |-> c]

Init ==
  /\ phase = "Configure" /\ seen = 0
  /\ features = {} /\ power = None /\ volume = None
  /\ commands = << >>
  /\ calls = [c \in Calls |-> [kind |-> None, phase |-> "Idle", ok |-> FALSE]]
  /\ handle = "Gone"
  /\ out = << >>
  /\ read = [features |-> {}, power |-> None, volume |-> None, pings |-> 0]
-----------------------------------------------------------------------------
\* The frames a message is answered with, and whether it is acceptable.
\* A bug: pings are answered in an established session only.
pong_when_ready(m) == IF m.ping # {} /\ Ready THEN <<Pong(read.pings + 1)>> ELSE << >>

pong(m) == IF m.ping # {} THEN <<Pong(read.pings + 1)>> ELSE << >>

\* What the handshake waits for (`select`).
awaited(m) ==
  CASE phase = "Configure" -> m.configure # {}
    [] phase = "SetActive" -> m.set_active # {}
    [] phase = "Start"     -> m.start # {}
    [] OTHER               -> FALSE

\* RemoteConfigure, when this message is the one awaited.
configuration(m) == IF phase = "Configure" THEN m.configure ELSE {}

\* The features both sides have.
negotiated(m) == ((UNION {c.features : c \in configuration(m)}) \cap IMPLEMENTED_FEATURES) \cup features

reply(m) ==
  IF awaited(m) /\ phase # "Start" THEN <<Reply(phase, negotiated(m))>> ELSE << >>

acceptable(m) ==
  /\ m.error = {} /\ Invalid \notin m.volume
  /\ \A c \in configuration(m) : c.valid

handshake_replies(m) ==
  CASE m.error # {}  -> << >>
    [] acceptable(m) -> pong(m) \o reply(m)
    [] OTHER         -> pong(m)

\* What was read, for the properties.
Note(m) ==
  read' = [features |-> (UNION {c.features : c \in configuration(m)}) \cup read.features,
           power    |-> unwrap_or(m.start, read.power),
           volume   |-> unwrap_or(m.volume, read.volume),
           pings    |-> read.pings + Cardinality(m.ping)]

next_phase == CASE phase = "Configure" -> "SetActive" [] phase = "SetActive" -> "Start" [] OTHER -> "Ready"

\* A bug: the volume that comes with an awaited message is passed over.
initial_volume_early(m) == IF awaited(m) THEN volume ELSE unwrap_or(m.volume, volume)

initial_volume(m) == unwrap_or(m.volume, volume)

\* wait_for_handshake_message and what perform_handshake does with its result:
\* `writes` of the answers are written.
HandshakeMessage(m, writes) ==
  /\ Handshaking /\ writes <= Len(handshake_replies(m))
  /\ out' = out \o SubSeq(handshake_replies(m), 1, writes)
  /\ IF acceptable(m) /\ writes = Len(handshake_replies(m))
     THEN /\ Note(m)
          /\ features' = negotiated(m)
          /\ volume' = initial_volume(m)
          /\ power' = IF phase = "Start" THEN unwrap_or(m.start, power) ELSE power
          /\ IF awaited(m) THEN phase' = next_phase /\ seen' = 0
             ELSE /\ seen' = seen + 1
                  /\ phase' = IF seen' = MAX_HANDSHAKE_MESSAGES THEN "Over" ELSE phase
     ELSE phase' = "Over" /\ UNCHANGED <<seen, state, read>>
  /\ handle' = IF phase' = "Ready" THEN "Open" ELSE handle
  /\ UNCHANGED <<commands, calls>>

\* HANDSHAKE_TIMEOUT, EXCHANGE_TIMEOUT or the end of the stream.
HandshakeFails ==
  /\ Handshaking
  /\ phase' = "Over"
  /\ UNCHANGED <<seen, state, commands, calls, handle, out, read>>
-----------------------------------------------------------------------------
\* A bug: the channel outlives the task.
Ended_undrained(cs) == phase' = "Over" /\ calls' = cs /\ UNCHANGED commands

\* run_remote.  When the task ends its channel is dropped with what is in it.
Ended(cs) ==
  /\ phase' = "Over"
  /\ commands' = << >>
  /\ calls' = [c \in Calls |-> IF cs[c].phase = "Queued" THEN [cs[c] EXCEPT !.phase = "Answered"] ELSE cs[c]]

\* handle_inbound.
Inbound(m, writes) ==
  /\ Ready /\ seen < MaxMessages
  /\ writes <= Len(IF m.error # {} THEN << >> ELSE pong(m))
  /\ seen' = seen + 1
  /\ out' = out \o SubSeq(pong(m), 1, writes)
  /\ IF m.error # {} \/ writes < Len(pong(m))
     THEN Ended(calls) /\ UNCHANGED <<power, volume, read>>
     ELSE /\ power' = unwrap_or(m.start, power)
          /\ IF Invalid \in m.volume
             THEN Ended(calls) /\ UNCHANGED <<volume, read>>
             ELSE /\ volume' = unwrap_or(m.volume, volume)
                  /\ Note(m)
                  /\ UNCHANGED <<phase, commands, calls>>
  /\ UNCHANGED <<features, handle>>

\* A read error, or a frame that is no RemoteMessage.
ReadFails ==
  /\ Ready
  /\ Ended(calls)
  /\ UNCHANGED <<seen, state, handle, out, read>>

\* reply.send(Ok): to a caller that still waits.
succeed(c) ==
  [calls EXCEPT ![c] = IF @.phase = "Queued" THEN [@ EXCEPT !.phase = "Answered", !.ok = TRUE] ELSE @]

\* A bug: the result of the write is not looked at.
TakeKey_unchecked ==
  LET c == Head(commands)
  IN  /\ Ready /\ commands # << >> /\ calls[c].kind # "Close"
      /\ out' \in {out, Append(out, Key(c))}
      /\ commands' = Tail(commands) /\ calls' = succeed(c)
      /\ UNCHANGED <<phase, seen, state, handle, read>>

\* RemoteCommand::Key, written even when its caller has been cancelled.
TakeKey ==
  LET c == Head(commands)
  IN  /\ Ready /\ commands # << >> /\ calls[c].kind # "Close"
      /\ \/ /\ out' = Append(out, Key(c))
            /\ commands' = Tail(commands) /\ calls' = succeed(c)
            /\ UNCHANGED phase
         \/ Ended(calls) /\ UNCHANGED out
      /\ UNCHANGED <<seen, state, handle, read>>

\* RemoteCommand::Close: writer.shutdown succeeds, or fails or times out.
TakeClose ==
  LET c == Head(commands)
  IN  /\ Ready /\ commands # << >> /\ calls[c].kind = "Close"
      /\ Ended(succeed(c)) \/ Ended(calls)
      /\ UNCHANGED <<seen, state, handle, out, read>>
-----------------------------------------------------------------------------
\* A bug: a power key is checked as any key.
required_key(kind) == IF kind = "Close" THEN {} ELSE {"KEY"}

\* Calls.  send_key takes "KEY", the power keys "POWER" as well.
required(kind) == CASE kind = "Key" -> {"KEY"} [] kind = "PowerKey" -> {"KEY", "POWER"} [] OTHER -> {}

Unborrowed == \A c \in Calls : calls[c].phase \in {"Idle", "Done"}

Issue(c, kind) ==
  /\ handle = "Open" /\ calls[c].phase = "Idle"
  /\ kind = "Close" => Unborrowed
  /\ calls' = [calls EXCEPT ![c] = [kind |-> kind, ok |-> FALSE,
                                    phase |-> IF required(kind) \subseteq features THEN "Sending" ELSE "Done"]]
  /\ handle' = IF kind = "Close" THEN "Closing" ELSE handle
  /\ UNCHANGED <<phase, seen, state, commands, out, read>>

\* commands.send: waits for room, fails when the task has ended.
Send(c) ==
  /\ calls[c].phase = "Sending"
  /\ \/ /\ Ready /\ Len(commands) < COMMAND_QUEUE_CAPACITY
        /\ commands' = Append(commands, c)
        /\ calls' = [calls EXCEPT ![c].phase = "Queued"]
     \/ /\ ~Ready
        /\ calls' = [calls EXCEPT ![c].phase = "Done"]
        /\ UNCHANGED commands
  /\ UNCHANGED <<phase, seen, state, handle, out, read>>

Proceed(c) ==
  /\ calls[c].phase = "Answered"
  /\ calls' = [calls EXCEPT ![c].phase = "Done"]
  /\ UNCHANGED <<phase, seen, state, commands, handle, out, read>>

\* The future of a call is dropped: a key goes its way, a close takes the
\* handle with it.
CancelKey(c) ==
  /\ calls[c].phase \in {"Sending", "Queued"} /\ calls[c].kind # "Close"
  /\ calls' = [calls EXCEPT ![c].phase = "Done"]
  /\ UNCHANGED <<phase, seen, state, commands, handle, out, read>>

\* Drop for RemoteSession aborts the task where it awaits: the handle, or a
\* close under way, is dropped.
Drop ==
  /\ handle # "Gone"
  /\ handle = "Open" => Unborrowed
  /\ handle' = "Gone"
  /\ phase' = "Over"
  /\ commands' = << >>
  /\ calls' = [c \in Calls |-> IF calls[c].phase \in {"Sending", "Queued", "Answered"}
                               THEN [calls[c] EXCEPT !.phase = "Done", !.ok = FALSE] ELSE calls[c]]
  /\ UNCHANGED <<seen, state, out, read>>
-----------------------------------------------------------------------------
Device ==
  \/ \E m \in Messages, writes \in 0 .. 2 :
       /\ m.ping # {} => read.pings < MaxPings
       /\ HandshakeMessage(m, writes) \/ Inbound(m, writes)
  \/ HandshakeFails
  \/ ReadFails

Command == TakeKey \/ TakeClose

Caller ==
  \/ \E c \in Calls :
       \/ \E kind \in {"Key", "PowerKey", "Close"} : Issue(c, kind)
       \/ Send(c) \/ Proceed(c) \/ CancelKey(c)
  \/ Drop

Next == Device \/ Command \/ Caller

Spec == Init /\ [][Next]_vars
-----------------------------------------------------------------------------
\* send_key: "success means the ready TLS session accepted the complete protocol
\* frame".  A call that succeeded has its key sent; no key is sent twice, also
\* when its call was cancelled.
KeysAreSentOnce ==
  \A c \in Calls :
    /\ Cardinality({i \in DOMAIN out : out[i] = Key(c)}) <= 1
    /\ calls[c].kind \in {"Key", "PowerKey"} /\ calls[c].ok => Key(c) \in Range(out)

\* A key is only sent to a device that announced, in its own configuration, the
\* features the key needs, and after it was told what this side implements.
KeysAreNegotiated ==
  \A i \in DOMAIN out : out[i].kind = "Key" =>
    /\ {"KEY"} \cup (IF calls[out[i].of].kind = "PowerKey" THEN {"POWER"} ELSE {})
         \subseteq read.features \cap IMPLEMENTED_FEATURES
    /\ \E j, k \in 1 .. i - 1 : j < k /\ out[j] = Reply("Configure", features) /\ out[k] = Reply("SetActive", features)

\* How many of the first n frames are pongs.
Pongs(n) == Cardinality({i \in 1 .. n : out[i].kind = "Pong"})

\* Pings are answered in order and with their own value, in the handshake and
\* after it, and none is left unanswered while the session goes on.
PingsAreAnswered ==
  /\ \A i \in DOMAIN out : out[i].kind = "Pong" => out[i].of = Pongs(i)
  /\ phase # "Over" => Pongs(Len(out)) = read.pings

\* The handle shows the latest power state and volume the device reported, also
\* those reported in the middle of the handshake.
StateIsLatest == Ready => power = read.power /\ volume = read.volume
=============================================================================
