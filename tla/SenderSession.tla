--------------------------- MODULE SenderSession ---------------------------
(* The session an application holds (src/src/sender/mod.rs): start_address    *)
(* turns an offer and an answer into streams and spawns the event loop; the   *)
(* session and its stream handles send it commands and wait for the results.  *)
(*                                                                            *)
(* SenderLoop is the loop in full.  Here it serves commands in their order,   *)
(* accepts or refuses a frame, and may fail at any moment.                    *)
EXTENDS Offers

CONSTANTS
  Configurations,     \* sequences of configurations an application may offer
  Answers,            \* answers a receiver may give
  Exercised,          \* bound: <<configurations, answer>> after which calls are made
  Calls,              \* calls of the application, each made once
  Delays,             \* playout delays asked for, in fractions of a millisecond
  U16_MAX,
  COMMAND_CAPACITY    \* 64 in the code

ASSUME SessionAssumption ==
  /\ {U16_MAX, COMMAND_CAPACITY} \subseteq Nat \ {0}
  /\ Delays \subseteq Nat
  /\ \A cs \in Configurations : cs \in Seq([type : StreamTypes, target_delay : Nat, sound : BOOLEAN])
  /\ \A a \in Answers : /\ a.send_indexes \in Seq(Nat) /\ a.sync_sources \in Seq(Nat)
                        /\ \A extensions \in a.rtp_extensions : extensions \in Seq(BOOLEAN)

VARIABLES
  configured, \* the configurations build was called with, << >> before
  offer,      \* what it returned, << >> when it failed
  answer,     \* the answer start was called with, << >> before
  streams,    \* accepted streams by type: [sender, receiver, target, adaptive, pending]
  supports_adaptive_playout_delay,
  session,    \* the SenderSession: "None", "Open", "ShuttingDown" or "Gone"
  handles,    \* types the application has handles for
  task,       \* the event loop: "None", "Running", or its result "Ok" or "Err"
  commands,   \* the command channel: calls
  calls,      \* [kind, arg, phase, result, id]
  \* Not in the code:
  accepted,   \* by type, the calls whose frames were accepted
  attached,   \* by type, the delays attached to frames, as on the wire
  applied,    \* the delays the loop has set
  earlier     \* by call, the calls that were over when it was made

loop == <<streams, accepted, attached, applied>>
negotiation == <<configured, offer, answer, supports_adaptive_playout_delay>>
vars == <<negotiation, session, handles, task, commands, calls, loop, earlier>>

Idle == [kind |-> "None", arg |-> 0, stream |-> "Audio", phase |-> "Idle", result |-> "None", id |-> 0]

Init ==
  /\ configured = << >> /\ offer = << >> /\ answer = << >>
  /\ streams = << >> /\ supports_adaptive_playout_delay = FALSE
  /\ session = "None" /\ handles = {} /\ task = "None"
  /\ commands = << >> /\ calls = [c \in Calls |-> Idle]
  /\ accepted = [t \in StreamTypes |-> << >>] /\ attached = accepted
  /\ applied = << >> /\ earlier = [c \in Calls |-> {}]
-----------------------------------------------------------------------------
\* Offer::builder() and the calls of the builder, to build().
Build(configurations) ==
  /\ configured = << >>
  /\ configured' = <<configurations>>
  /\ offer' \in IF build(configurations) = {} THEN {<< >>} ELSE build(configurations)
  /\ UNCHANGED <<answer, supports_adaptive_playout_delay, session, handles, task, commands, calls, loop, earlier>>

\* Answer::validate.  `sound` stands for its port and its dimensions.
validate(a) ==
  /\ a.send_indexes # << >> /\ a.sound
  /\ Len(a.sync_sources) = Len(a.send_indexes)
  /\ \A extensions \in a.rtp_extensions : Len(extensions) = Len(a.send_indexes)
  /\ 0 \notin Range(a.sync_sources)
  /\ IsInjective(a.send_indexes) /\ IsInjective(a.sync_sources)

\* A bug: extensions are looked up by the index of the offer.
stream_state_by_offer(a, k) ==
  LET index == a.send_indexes[k]
  IN  [sender |-> offer[index].sync_source, receiver |-> a.sync_sources[k],
       target |-> offer[index].target_delay, pending |-> 0,
       adaptive |-> \E extensions \in a.rtp_extensions : index \in DOMAIN extensions /\ extensions[index]]

\* The parameters of the k-th accepted stream: the sender's by the index of the
\* offer, the receiver's by the place in the answer.
stream_state(a, k) ==
  LET index == a.send_indexes[k]
  IN  [sender |-> offer[index].sync_source, receiver |-> a.sync_sources[k],
       target |-> offer[index].target_delay, pending |-> 0,
       adaptive |-> \E extensions \in a.rtp_extensions : extensions[k]]

\* One turn of the loop over send_indexes; the first error ends it.
next_stream(a, k, done) ==
  LET index == a.send_indexes[k]
  IN  IF \/ ~done.ok \/ index \notin DOMAIN offer
         \/ a.sync_sources[k] = offer[index].sync_source
         \/ offer[index].stream_type \in DOMAIN done.streams
      THEN [done EXCEPT !.ok = FALSE]
      ELSE [ok      |-> TRUE,
            streams |-> [t \in DOMAIN done.streams \cup {offer[index].stream_type} |->
                           IF t \in DOMAIN done.streams THEN done.streams[t] ELSE stream_state(a, k)]]

negotiated(a) ==
  LET upto[k \in 0 .. Len(a.send_indexes)] ==
        IF k = 0 THEN [ok |-> TRUE, streams |-> << >>] ELSE next_stream(a, k, upto[k - 1])
  IN  upto[Len(a.send_indexes)]

\* start_address: fails, or spawns the loop.
Start(a) ==
  LET result == IF validate(a) THEN negotiated(a) ELSE [ok |-> FALSE, streams |-> << >>]
  IN  /\ offer # << >> /\ answer = << >>
      /\ answer' = <<a>>
      /\ IF result.ok /\ result.streams # << >>
         THEN /\ streams' = result.streams
              /\ supports_adaptive_playout_delay' =
                   \A t \in DOMAIN result.streams : result.streams[t].adaptive
              /\ session' = "Open" /\ task' = "Running"
         ELSE UNCHANGED <<streams, supports_adaptive_playout_delay, session, task>>
      /\ UNCHANGED <<configured, offer, handles, commands, calls, accepted, attached, applied, earlier>>

\* audio() and video(); a handle is dropped.
Handle(t) ==
  /\ session = "Open" /\ t \in DOMAIN streams \ handles
  /\ handles' = handles \cup {t}
  /\ UNCHANGED <<negotiation, session, task, commands, calls, loop, earlier>>

Pending(c) == calls[c].phase \notin {"Idle", "Done"}

DropHandle(t) ==
  /\ t \in handles
  /\ \A c \in Calls : ~(Pending(c) /\ calls[c].kind = "Send" /\ calls[c].stream = t)
  /\ handles' = handles \ {t}
  /\ UNCHANGED <<negotiation, session, task, commands, calls, loop, earlier>>
-----------------------------------------------------------------------------
\* Calls.
valid_playout_delay(delay) ==
  LET milliseconds == delay \div MILLISECOND
  IN  milliseconds \in 1 .. U16_MAX /\ delay = milliseconds * MILLISECOND

Issue(c, call) ==
  /\ calls[c] = Idle /\ <<configured[1], answer[1]>> \in Exercised
  /\ calls' = [calls EXCEPT ![c] = call]
  /\ earlier' = [earlier EXCEPT ![c] = {d \in Calls : calls[d].phase = "Done"}]
  /\ UNCHANGED <<negotiation, handles, task, commands, loop>>

\* StreamHandle::send.
send(c, t) ==
  /\ t \in handles
  /\ Issue(c, [Idle EXCEPT !.kind = "Send", !.stream = t, !.phase = "Sending"])
  /\ UNCHANGED session

set_target_playout_delay(c, delay) ==
  /\ session = "Open"
  /\ Issue(c, [Idle EXCEPT !.kind = "Delay", !.arg = delay,
                 !.phase  = IF valid_playout_delay(delay) /\ supports_adaptive_playout_delay THEN "Sending" ELSE "Done",
                 !.result = CASE ~valid_playout_delay(delay) -> "InvalidDelay"
                              [] ~supports_adaptive_playout_delay -> "Unsupported"
                              [] OTHER -> "None"])
  /\ UNCHANGED session

statistics(c) ==
  /\ session = "Open"
  /\ Issue(c, [Idle EXCEPT !.kind = "Statistics", !.phase = "Sending"])
  /\ UNCHANGED session

\* Calls that borrow the session.
Borrowed == \E c \in Calls : Pending(c) /\ calls[c].kind \in {"Delay", "Statistics"}

\* shutdown takes the session.
shutdown(c) ==
  /\ session = "Open" /\ ~Borrowed
  /\ Issue(c, [Idle EXCEPT !.kind = "Shutdown", !.phase = "Sending"])
  /\ session' = "ShuttingDown"

\* The session is dropped: the loop is not aborted.
DropSession ==
  /\ session = "Open" /\ ~Borrowed
  /\ session' = "Gone"
  /\ UNCHANGED <<negotiation, handles, task, commands, calls, loop, earlier>>

Finish(c, call) ==
  /\ calls' = [calls EXCEPT ![c] = [call EXCEPT !.phase = "Done"]]
  /\ session' = IF calls[c].kind = "Shutdown" THEN "Gone" ELSE session
  /\ UNCHANGED <<negotiation, handles, task, loop, earlier>>

Queued(c) ==
  /\ calls' = [calls EXCEPT ![c].phase = "Queued"]
  /\ UNCHANGED <<negotiation, session, handles, task, loop, earlier>>

\* A bug: the newest command is put before the others.
Send_first(c) ==
  /\ calls[c].phase = "Sending"
  /\ task = "Running" /\ Len(commands) < COMMAND_CAPACITY
  /\ commands' = <<c>> \o commands
  /\ Queued(c)

\* command_sender.send waits for room and fails once the loop has ended, which
\* sends a shutdown on to the task.
Send(c) ==
  /\ calls[c].phase = "Sending"
  /\ \/ /\ task = "Running" /\ Len(commands) < COMMAND_CAPACITY
        /\ commands' = Append(commands, c)
        /\ Queued(c)
     \/ /\ task # "Running"
        /\ UNCHANGED commands
        /\ Finish(c, [calls[c] EXCEPT !.result = IF calls[c].kind = "Shutdown" THEN task ELSE "SessionClosed"])

\* A bug: shutdown returns the answer to its command instead of the task's result.
Proceed_unjoined(c) ==
  /\ calls[c].phase = "Answered"
  /\ UNCHANGED commands
  /\ Finish(c, calls[c])

\* The result is there, or the loop has dropped the command; shutdown then waits
\* for the task and returns its result.
Proceed(c) ==
  /\ calls[c].phase = "Answered"
  /\ calls[c].kind = "Shutdown" => task # "Running"
  /\ UNCHANGED commands
  /\ Finish(c, [calls[c] EXCEPT !.result = IF calls[c].kind = "Shutdown" THEN task ELSE @])

\* The future of a call is dropped.  What is in the channel stays there.
Cancel(c) ==
  /\ calls[c].phase \in {"Sending", "Queued", "Answered"}
  /\ UNCHANGED commands
  /\ Finish(c, [calls[c] EXCEPT !.result = "None", !.id = 0])
-----------------------------------------------------------------------------
\* The event loop.  A result goes to a caller that still waits.
replied(c, result, id) ==
  [calls EXCEPT ![c] = IF @.phase = "Queued" THEN [@ EXCEPT !.phase = "Answered", !.result = result, !.id = id] ELSE @]

\* A bug: the channel outlives the loop.
Ended_undrained(cs, result) == task' = result /\ calls' = cs /\ UNCHANGED commands

\* When the loop ends, its channel is dropped with what is in it.
Ended(cs, result) ==
  /\ task' = result
  /\ commands' = << >>
  /\ calls' = [c \in Calls |-> IF cs[c].phase = "Queued"
                               THEN [cs[c] EXCEPT !.phase = "Answered", !.result = "SessionClosed"] ELSE cs[c]]

Take(kind) ==
  /\ task = "Running" /\ commands # << >> /\ calls[Head(commands)].kind = kind
  /\ UNCHANGED <<negotiation, session, handles, earlier>>

\* packetize puts the pending delay on the frame, `as u16` in milliseconds.
AcceptFrame ==
  LET c == Head(commands)
      t == calls[c].stream
      pending == streams[t].pending
  IN  /\ Take("Send")
      /\ accepted' = [accepted EXCEPT ![t] = Append(@, c)]
      /\ attached' = IF pending = 0 THEN attached
                     ELSE [attached EXCEPT ![t] = Append(@, (pending \div MILLISECOND) % (U16_MAX + 1))]
      /\ streams' = [streams EXCEPT ![t].pending = 0]
      /\ calls' = replied(c, "Ok", Len(accepted'[t]))
      /\ commands' = Tail(commands)
      /\ UNCHANGED <<task, applied>>

\* A bug: the delay is taken before the frame is known to be acceptable.
RefuseFrame_taking ==
  LET c == Head(commands)
  IN  /\ Take("Send")
      /\ streams' = [streams EXCEPT ![calls[c].stream].pending = 0]
      /\ calls' = replied(c, "Refused", 0)
      /\ commands' = Tail(commands)
      /\ UNCHANGED <<task, accepted, attached, applied>>

\* enqueue_frame returns early: nothing is taken.
RefuseFrame ==
  /\ Take("Send")
  /\ calls' = replied(Head(commands), "Refused", 0)
  /\ commands' = Tail(commands)
  /\ UNCHANGED <<task, loop>>

\* A delay replaces the target of every stream and waits for its next frame.
SetDelay ==
  LET c == Head(commands)
      supported == \A t \in DOMAIN streams : streams[t].adaptive
  IN  /\ Take("Delay")
      /\ IF supported
         THEN /\ streams' = [t \in DOMAIN streams |-> [streams[t] EXCEPT !.target = calls[c].arg, !.pending = calls[c].arg]]
              /\ applied' = Append(applied, calls[c].arg)
         ELSE UNCHANGED <<streams, applied>>
      /\ calls' = replied(c, IF supported THEN "Ok" ELSE "Unsupported", 0)
      /\ commands' = Tail(commands)
      /\ UNCHANGED <<task, accepted, attached>>

Statistics ==
  /\ Take("Statistics")
  /\ calls' = replied(Head(commands), "Ok", 0)
  /\ commands' = Tail(commands)
  /\ UNCHANGED <<task, loop>>

Shutdown ==
  /\ Take("Shutdown")
  /\ Ended(replied(Head(commands), "Ok", 0), "Ok")
  /\ UNCHANGED loop

\* recv returns None: every sender is gone and the channel is empty.
Abandoned ==
  /\ task = "Running" /\ commands = << >>
  /\ session = "Gone" /\ handles = {}
  /\ Ended(calls, "Ok")
  /\ UNCHANGED <<negotiation, session, handles, loop, earlier>>

\* A send fails or the receiver has timed out, in any arm.
LoopFails ==
  /\ task = "Running"
  /\ Ended(calls, "Err")
  /\ UNCHANGED <<negotiation, session, handles, loop, earlier>>
-----------------------------------------------------------------------------
Serve == AcceptFrame \/ RefuseFrame \/ SetDelay \/ Statistics \/ Shutdown \/ Abandoned

Application ==
  \/ \E configurations \in Configurations : Build(configurations)
  \/ answer = << >> /\ \E a \in Answers : Start(a)
  \/ \E t \in StreamTypes : Handle(t) \/ DropHandle(t) \/ \E c \in Calls : send(c, t)
  \/ \E c \in Calls :
       \/ \E delay \in Delays : set_target_playout_delay(c, delay)
       \/ statistics(c) \/ shutdown(c) \/ Send(c) \/ Proceed(c) \/ Cancel(c)
  \/ DropSession

Next == Serve \/ Application \/ LoopFails

Spec == Init /\ [][Next]_vars

\* The loop serves its commands, and callers that wait are polled.
FairSpec ==
  /\ Spec /\ WF_vars(Serve)
  /\ \A c \in Calls : WF_vars(Send(c)) /\ WF_vars(Proceed(c))
-----------------------------------------------------------------------------
\* Every configuration is offered once, the audio ones before the video ones, and
\* the receiver is told its delay exactly: build refuses what the wire has no
\* room for.
OfferIsAsConfigured ==
  offer # << >> =>
    LET wanted == configured[1]
        wire     == serialize(offer)
        place(i) == [type |-> wire[i].type, delay |-> wire[i].targetDelay * MILLISECOND]
        asked(i) == [type |-> wanted[i].type, delay |-> wanted[i].target_delay]
        order(i) == IF asked(i).type = "Audio" THEN i ELSE Len(offer) + i
    IN  /\ Len(offer) = Len(wanted)
        /\ \E at \in Bijection(DOMAIN wanted, DOMAIN offer) :
             \A i, j \in DOMAIN wanted :
               place(at[i]) = asked(i) /\ (order(i) < order(j) => at[i] < at[j])

\* A session is started exactly by an answer that takes at least one stream of
\* the offer, at most one of each type, and gives each a receiver source of its
\* own; whatever the order of the answer, each stream has the source the receiver
\* was told for its index, the source and the extensions the receiver has given
\* for it and, until a call sets another, the delay the receiver was told.
StartMatchesAnswer ==
  \A i \in DOMAIN answer :
    LET a       == answer[i]
        took    == a.send_indexes
        told    == serialize(offer)
        type(k) == told[took[k]].type
    IN  /\ task # "None" <=>
             /\ validate(a) /\ Range(took) \subseteq DOMAIN told
             /\ \A k \in DOMAIN took : a.sync_sources[k] # told[took[k]].ssrc
             /\ \A j, k \in DOMAIN took : type(j) = type(k) => j = k
        /\ task # "None" =>
             /\ DOMAIN streams = {type(k) : k \in DOMAIN took}
             /\ \A k \in DOMAIN took :
                  /\ streams[type(k)].sender = told[took[k]].ssrc
                  /\ applied = << >> => streams[type(k)].target = told[took[k]].targetDelay * MILLISECOND
                  /\ streams[type(k)].receiver = a.sync_sources[k]
                  /\ streams[type(k)].adaptive <=> \E extensions \in a.rtp_extensions : extensions[k]

\* The last delay the loop has set is the target of every stream, and exactly what
\* its receiver is told last, on a frame or on the next; none is attached more
\* often than it was set; a call told of success has been set.
DelaysReachEveryStream ==
  /\ \A t \in DOMAIN streams :
       LET ms   == streams[t].pending \div MILLISECOND
           told == attached[t] \o (IF ms = 0 THEN << >> ELSE <<ms>>)
       IN  /\ Len(told) <= Len(applied)
           /\ applied # << >> => /\ streams[t].target = applied[Len(applied)]
                                 /\ told # << >> /\ told[Len(told)] * MILLISECOND = streams[t].target
  /\ \A c \in Calls : calls[c].kind = "Delay" /\ calls[c].result = "Ok" => calls[c].arg \in Range(applied)

\* The frames of a stream are numbered in the order of their calls: a frame is
\* accepted once, its caller is told its own number, and a call made after
\* another was over, even cancelled, has a later frame.
FramesKeepOrder ==
  \A t \in StreamTypes :
    /\ \A i, j \in DOMAIN accepted[t] :
         /\ accepted[t][i] = accepted[t][j] => i = j
         /\ accepted[t][i] \in earlier[accepted[t][j]] => i < j
    /\ \A c \in Calls : calls[c].stream = t /\ calls[c].id # 0 => accepted[t][calls[c].id] = c

\* "Shut down the session and return its terminal result": a shutdown that returns
\* reports how the loop ended, also when the loop failed before it was reached, and
\* nothing else.  One that was cancelled returns nothing.
ShutdownReturnsResult ==
  \A c \in Calls :
    calls[c].kind = "Shutdown" /\ calls[c].phase = "Done" /\ calls[c].result # "None" => task = calls[c].result

\* Every call returns, also those in the channel when the loop ends, and a loop
\* nobody holds a sender of ends.
SessionCallsReturn ==
  /\ \A c \in Calls : calls[c].phase = "Sending" ~> calls[c].phase = "Done"
  /\ session = "Gone" /\ handles = {} ~> task # "Running"
=============================================================================
