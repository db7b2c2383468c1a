----------------------------- MODULE SenderLoop -----------------------------
(* The event loop of a media session (`run` in src/src/sender/event_loop.rs): *)
(* one task that owns the audio and the video stream, their acknowledgement   *)
(* watchdogs, the debounced statistics and the bounded channel of events.     *)
(* Each arm of its select! is an action.  The receiver is anything that can   *)
(* arrive: every combination of reports, Cast feedback and picture loss.      *)
(*                                                                            *)
(* Time is counted in units.  Timers are counted down and a timer that is due *)
(* stops the clock: the loop is taken to serve it within the unit.  The burst *)
(* timer is faster than the unit and may tick at any time.  What the budget   *)
(* pays for in a flush is in BurstBudget; here it is any number of packets.   *)
(*                                                                            *)
(* Not actions, as they change nothing: the Statistics command, a frame for a *)
(* stream that was not accepted, a datagram from another host or for another  *)
(* source, one that is no RTCP, an interrupted receive.                       *)
EXTENDS StreamMeasurements

CONSTANTS
  Kinds,                   \* the accepted streams, of "Audio" and "Video"
  AdaptiveKinds,           \* those that negotiated adaptive playout delay
  OFFERED_PLAYOUT_DELAY,   \* the target delay of the offer
  INITIAL_RECEIVER_ACKNOWLEDGEMENT_TIMEOUT,
  RECEIVER_ACKNOWLEDGEMENT_TIMEOUT,
  RECEIVER_TIMEOUT_POLL_INTERVAL,
  RTCP_REPORT_INTERVAL,
  STATISTICS_DEBOUNCE_INTERVAL,
  EVENT_CAPACITY,                 \* of the event channel: 64 in the code
  RESERVED_TERMINAL_EVENT_SLOTS,  \* 2 in the code
  PacketCounts,            \* inputs: packets of a frame
  TargetDelays,            \* delays the application sets
  LossFractions,           \* what a compound RTCP packet may hold
  ReportDelays, ReceiverDelays, PictureLosses, Checkpoints, AckBits, NackIds,
  MaxNacks,                \* bound: NACK entries of one feedback
  MaxFrames,               \* bound: frames accepted on all streams
  MaxRefused,              \* bound: frames refused on a stream
  MaxNackCount,            \* bound: NACK entries received on a stream
  MaxRetransmits           \* bound: packets on a retransmit queue

ASSUME KindsAssumption == Kinds \subseteq {"Audio", "Video"} /\ Kinds # {}

ASSUME TimersAssumption ==
  {INITIAL_RECEIVER_ACKNOWLEDGEMENT_TIMEOUT, RECEIVER_ACKNOWLEDGEMENT_TIMEOUT,
   RECEIVER_TIMEOUT_POLL_INTERVAL, RTCP_REPORT_INTERVAL, STATISTICS_DEBOUNCE_INTERVAL}
     \subseteq Nat \ {0}

ASSUME TimeoutsAssumption ==
  RECEIVER_ACKNOWLEDGEMENT_TIMEOUT <= INITIAL_RECEIVER_ACKNOWLEDGEMENT_TIMEOUT

ASSUME EventsAssumption ==
  /\ RESERVED_TERMINAL_EVENT_SLOTS \in Nat \ {0}
  /\ EVENT_CAPACITY \in Nat /\ EVENT_CAPACITY > RESERVED_TERMINAL_EVENT_SLOTS
  /\ None \notin {"FatalError", "ReceiverTimedOut"}

ASSUME InputsAssumption ==
  /\ {PacketCounts, TargetDelays, Checkpoints, AckBits, NackIds, ReportDelays} \subseteq SUBSET Nat
  /\ MaxNacks \in Nat

VARIABLES
  streams,      \* the StreamState of each kind
  measured,     \* and its measurements
  watchdog,     \* [waiting, has_acknowledged] of each kind; waiting: time since
                \* waiting_since, or None
  statistics,   \* [pending, due]: statistics_pending, time to statistics_timer
  timers,       \* [poll, report]: time to timeout_timer and to rtcp_timer
  events,       \* the event channel: [waiting, terminal, open]
  result,       \* "Running", or what run returned
  \* Not in the code:
  unanswered,   \* time a stream has had frames in flight without progress, up
                \* to the longest timeout
  silent,       \* time it has had transmitted frames without progress, up to
                \* LongestSilence
  published,    \* the feedback state of the last StatisticsUpdated
  stale         \* time that has differed from the current one

core == <<streams, measured, watchdog>>
observed == <<unanswered, silent, published, stale>>
vars == <<core, statistics, timers, events, result, observed>>
-----------------------------------------------------------------------------
\* AcknowledgementWatchdog.

packet_sent(w) == [w EXCEPT !.waiting = IF @ = None THEN 0 ELSE @]

\* A bug: waiting goes on although all is acknowledged.
acknowledgement_advanced_idle(w, frames_still_in_flight) == [waiting |-> 0, has_acknowledged |-> TRUE]

acknowledgement_advanced(w, frames_still_in_flight) ==
  [waiting |-> IF frames_still_in_flight THEN 0 ELSE None, has_acknowledged |-> TRUE]

timeout(w) == IF w.has_acknowledged THEN RECEIVER_ACKNOWLEDGEMENT_TIMEOUT
              ELSE INITIAL_RECEIVER_ACKNOWLEDGEMENT_TIMEOUT

timed_out(w, frames_in_flight) ==
  frames_in_flight /\ w.waiting # None /\ w.waiting >= timeout(w)

\* timed_out also disarms the watchdog of a stream with nothing in flight.
disarm_idle(w, frames_in_flight) == IF frames_in_flight THEN w ELSE [w EXCEPT !.waiting = None]

\* A bug: no reserved slots.
emit_nonterminal_unreserved(e, count) ==
  IF e.open THEN [e EXCEPT !.waiting = Min({@ + count, EVENT_CAPACITY})] ELSE e

\* The event channel.  emit_nonterminal, `count` times: an event that would
\* take a reserved slot is dropped.
emit_nonterminal(e, count) ==
  LET limit == EVENT_CAPACITY - RESERVED_TERMINAL_EVENT_SLOTS
  IN  IF e.open /\ e.waiting < limit
      THEN [e EXCEPT !.waiting = IF @ + count < limit THEN @ + count ELSE limit]
      ELSE e

\* emit_fatal and the try_send of ReceiverTimedOut.
emit_terminal(e, event) ==
  IF e.open /\ e.waiting < EVENT_CAPACITY THEN [e EXCEPT !.terminal = event] ELSE e

session_feedback_state(ss, ms) == [t \in Kinds |-> stream_feedback_state(ss[t], ms[t])]

\* A bug: every change starts the timer again.
schedule_restarting(changed) ==
  statistics' = IF changed THEN [pending |-> TRUE, due |-> STATISTICS_DEBOUNCE_INTERVAL] ELSE statistics

\* The debounce: a change starts the timer unless it already runs.
schedule(changed) ==
  statistics' = IF changed /\ ~statistics.pending
                THEN [pending |-> TRUE, due |-> STATISTICS_DEBOUNCE_INTERVAL]
                ELSE statistics
-----------------------------------------------------------------------------
\* flush_queued_packets: the budget pays for sent[t] packets of each stream, and
\* for none of the video stream before the audio stream has no more.
payable(ss) ==
  {sent \in [Kinds -> 0 .. Max({Len(queued(ss[t])) : t \in Kinds})] :
     /\ \A t \in Kinds : sent[t] <= Len(queued(ss[t]))
     /\ {"Audio", "Video"} \subseteq Kinds /\ sent["Video"] > 0
          => sent["Audio"] = Len(queued(ss["Audio"]))}

\* A send that fails ends the session.  The packet has left its queue, and the
\* packets before it have been sent.
failing(sent) ==
  IF "Video" \in Kinds /\ ("Audio" \notin Kinds \/ sent["Video"] > 0) THEN "Video" ELSE "Audio"

\* The rest of an arm, from flush_queued_packets on: streams ss and watchdogs wd
\* are what the arm made of them, event_count the events it emitted.
flush_queued_packets(ss, wd, event_count, changed) ==
  \/ \E sent \in payable(ss) :
       /\ streams' = [t \in Kinds |-> pop_packets(ss[t], sent[t])]
       /\ watchdog' = [t \in Kinds |-> IF sent[t] > 0 THEN packet_sent(wd[t]) ELSE wd[t]]
       /\ events' = emit_nonterminal(events, event_count)
       /\ schedule(changed)
       /\ UNCHANGED result
  \/ \E sent \in payable(ss) :
       /\ sent[failing(sent)] > 0
       /\ streams' = [t \in Kinds |-> pop_packets(ss[t], sent[t])]
       /\ watchdog' = [t \in Kinds |-> IF sent[t] > (IF t = failing(sent) THEN 1 ELSE 0)
                                       THEN packet_sent(wd[t]) ELSE wd[t]]
       /\ events' = emit_terminal(emit_nonterminal(events, event_count), "FatalError")
       /\ result' = "Transport"
       /\ UNCHANGED statistics
-----------------------------------------------------------------------------
Init ==
  /\ streams = [t \in Kinds |-> new_stream]
  /\ measured = [t \in Kinds |-> new_measurements(OFFERED_PLAYOUT_DELAY)]
  /\ watchdog = [t \in Kinds |-> [waiting |-> None, has_acknowledged |-> FALSE]]
  /\ statistics = [pending |-> FALSE, due |-> 0]
  /\ timers = [poll |-> RECEIVER_TIMEOUT_POLL_INTERVAL, report |-> RTCP_REPORT_INTERVAL]
  /\ events = [waiting |-> 0, terminal |-> None, open |-> TRUE]
  /\ result = "Running"
  /\ unanswered = [t \in Kinds |-> 0]
  /\ silent = [t \in Kinds |-> 0]
  /\ published = session_feedback_state(streams, measured)
  /\ stale = 0

Running == result = "Running"

frames_accepted == SumFunction([t \in Kinds |-> streams[t].next_frame_id])

\* EnqueueFrame command, accepted.
EnqueueFrame(t, frame) ==
  LET ss == [streams EXCEPT ![t] = accept_frame(@, frame)]
  IN  /\ Running
      /\ frames_accepted < MaxFrames
      /\ enqueue_error(streams[t], frame) = None
      /\ flush_queued_packets(ss, watchdog, 0,
           session_feedback_state(ss, measured) # session_feedback_state(streams, measured))
      /\ UNCHANGED <<measured, timers, observed>>

\* EnqueueFrame command, refused: counted and announced, nothing is flushed.
RefuseFrame(t, frame) ==
  /\ Running
  /\ measured[t].frames_dropped_or_skipped < MaxRefused
  /\ enqueue_error(streams[t], frame) # None
  /\ measured' = [measured EXCEPT ![t] = reject_frame(@)]
  /\ schedule(TRUE)
  /\ UNCHANGED <<streams, watchdog, timers, events, result, observed>>

\* SetTargetPlayoutDelay command: all streams or none.
SetTargetPlayoutDelay(delay) ==
  /\ Running
  /\ AdaptiveKinds = Kinds
  /\ streams' = [t \in Kinds |-> set_target_playout_delay(streams[t], delay)]
  /\ measured' = [t \in Kinds |-> target_delay(measured[t], delay)]
  /\ schedule(session_feedback_state(streams', measured') # session_feedback_state(streams, measured))
  /\ UNCHANGED <<watchdog, timers, events, result, observed>>

\* Shutdown command, or every handle of the session dropped.
Shutdown ==
  /\ Running
  /\ result' = "Ok"
  /\ UNCHANGED <<core, statistics, timers, events, observed>>

\* burst_timer.
BurstTick ==
  /\ Running
  /\ flush_queued_packets(streams, watchdog, 0, FALSE)
  /\ UNCHANGED <<measured, timers, observed>>
-----------------------------------------------------------------------------
\* A compound RTCP packet has for each stream a receiver report, a Cast
\* feedback and a picture loss indication, or not.
Feedbacks ==
  [checkpoint : Checkpoints, bits : SUBSET AckBits,
   nacks : ShortSeqs([frame : 0 .. FRAME_ID_MODULUS - 1, packet_id : NackIds], MaxNacks),
   playout_delay : ReceiverDelays]
Reports ==
  [fraction_lost : LossFractions, last_sr : 0 .. SENDER_REPORT_HISTORY, delay : ReportDelays]
Parts ==
  [report : Reports \cup {None}, feedback : Feedbacks \cup {None}, picture_loss : PictureLosses]
Compounds == [Kinds -> Parts] \ {[t \in Kinds |-> [report |-> None, feedback |-> None, picture_loss |-> FALSE]]}

feedback_applied(s, part) ==
  IF part.feedback = None THEN s ELSE process_feedback(s, part.feedback)

feedback_measured(m, part) ==
  LET reported == IF part.report = None THEN m ELSE update_receiver_report(m, part.report)
  IN  IF part.feedback = None THEN reported
      ELSE count_nacks(update_playout_delay(reported, part.feedback.playout_delay), part.feedback.nacks)

acknowledged(s, part) == IF part.feedback = None THEN {} ELSE acknowledged_by(s, part.feedback)

\* FrameAcked, PacketRetransmission, PictureLoss with NeedsKeyFrame.
feedback_events(s, part) ==
  Cardinality(acknowledged(s, part))
  + (IF part.feedback = None THEN 0 ELSE Len(part.feedback.nacks))
  + (IF part.picture_loss THEN 2 ELSE 0)

over_kinds(count) ==
  (IF "Audio" \in Kinds THEN count["Audio"] ELSE 0) + (IF "Video" \in Kinds THEN count["Video"] ELSE 0)

\* A bug: progress of one stream is progress of the session.
any_progress(compound) ==
  IF \E t \in Kinds : acknowledged(streams[t], compound[t]) # {} THEN Kinds ELSE {}

\* AcknowledgementProgress.
progress(compound) == {t \in Kinds : acknowledged(streams[t], compound[t]) # {}}

\* A compound packet with receiver feedback arrives.
ReceiveCompound(compound) ==
  /\ Running
  /\ \A t \in Kinds :
       compound[t].report # None => compound[t].report.last_sr <= Len(measured[t].sender_reports)
  /\ \E ss \in {[t \in Kinds |-> feedback_applied(streams[t], compound[t])]},
        ms \in {[t \in Kinds |-> feedback_measured(measured[t], compound[t])]} :
       LET wd == [t \in Kinds |-> IF t \in progress(compound)
                                  THEN acknowledgement_advanced(watchdog[t], in_flight_count(ss[t]) # 0)
                                  ELSE watchdog[t]]
       IN  /\ \A t \in Kinds : Len(ss[t].retransmit_queue) <= MaxRetransmits /\ ms[t].nack_count <= MaxNackCount
           /\ measured' = ms
           /\ flush_queued_packets(ss, wd, over_kinds([t \in Kinds |-> feedback_events(streams[t], compound[t])]),
                session_feedback_state(ss, ms) # session_feedback_state(streams, measured))
  /\ unanswered' = [t \in Kinds |-> IF acknowledged(streams[t], compound[t]) # {} THEN 0 ELSE unanswered[t]]
  /\ silent' = [t \in Kinds |-> IF acknowledged(streams[t], compound[t]) # {} THEN 0 ELSE silent[t]]
  /\ UNCHANGED <<timers, published, stale>>

\* An RTCP packet that does not parse.
ReceiveMalformed ==
  /\ Running
  /\ events' = emit_nonterminal(events, 1)
  /\ UNCHANGED <<core, statistics, timers, result, observed>>

\* The socket fails.
ReceiveError ==
  /\ Running
  /\ result' = "Transport"
  /\ events' = emit_terminal(events, "FatalError")
  /\ UNCHANGED <<core, statistics, timers, observed>>
-----------------------------------------------------------------------------
\* rtcp_timer: a sender report for each stream, audio first.  A report that
\* could not be sent ends the session and is not recorded.
ReportTick(reported) ==
  /\ Running
  /\ timers.report = 0
  /\ "Audio" \in Kinds /\ reported # {} => "Audio" \in reported
  /\ measured' = [t \in Kinds |-> IF t \in reported THEN record_sender_report(measured[t]) ELSE measured[t]]
  /\ timers' = [timers EXCEPT !.report = RTCP_REPORT_INTERVAL]
  /\ IF reported = Kinds
     THEN UNCHANGED <<result, events>>
     ELSE result' = "Transport" /\ events' = emit_terminal(events, "FatalError")
  /\ UNCHANGED <<streams, watchdog, statistics, observed>>

\* statistics_timer.
StatisticsTick ==
  /\ Running
  /\ statistics.pending /\ statistics.due = 0
  /\ statistics' = [pending |-> FALSE, due |-> 0]
  /\ events' = emit_nonterminal(events, 1)
  /\ published' = session_feedback_state(streams, measured)
  /\ stale' = 0
  /\ UNCHANGED <<core, timers, result, unanswered, silent>>

\* A bug: nothing is polled before a frame has been acknowledged.
timeout_due_acknowledged == timers.poll = 0 /\ \E t \in Kinds : watchdog[t].has_acknowledged

timeout_due == timers.poll = 0

\* timeout_timer.
TimeoutTick ==
  LET frames_in_flight(t) == in_flight_count(streams[t]) # 0
  IN  /\ Running
      /\ timeout_due
      /\ timers' = [timers EXCEPT !.poll = RECEIVER_TIMEOUT_POLL_INTERVAL]
      /\ watchdog' = [t \in Kinds |-> disarm_idle(watchdog[t], frames_in_flight(t))]
      /\ IF \E t \in Kinds : timed_out(watchdog[t], frames_in_flight(t))
         THEN result' = "ReceiverTimedOut" /\ events' = emit_terminal(events, "ReceiverTimedOut")
         ELSE UNCHANGED <<result, events>>
      /\ UNCHANGED <<streams, measured, statistics, observed>>
-----------------------------------------------------------------------------
\* A packet of a frame in flight has left the send queue.
transmitted(s) ==
  \E i \in in_flight(s) : ~(Range(s.pending[i].packets) \subseteq Range(s.send_queue))

\* More than any session goes on for without an acknowledgement.
LongestSilence == INITIAL_RECEIVER_ACKNOWLEDGEMENT_TIMEOUT + RECEIVER_TIMEOUT_POLL_INTERVAL + 1

\* One unit of time passes: no timer is due.
Tick ==
  /\ Running
  /\ timers.poll > 0 /\ timers.report > 0
  /\ statistics.pending => statistics.due > 0
  /\ timers' = [poll |-> timers.poll - 1, report |-> timers.report - 1]
  /\ statistics' = [statistics EXCEPT !.due = IF @ > 0 THEN @ - 1 ELSE 0]
  /\ watchdog' = [t \in Kinds |-> [watchdog[t] EXCEPT !.waiting = IF @ = None THEN None ELSE @ + 1]]
  /\ measured' = [t \in Kinds |-> age_sender_reports(measured[t])]
  /\ unanswered' = [t \in Kinds |-> IF in_flight(streams[t]) = {} THEN 0
                                    ELSE IF unanswered[t] < INITIAL_RECEIVER_ACKNOWLEDGEMENT_TIMEOUT
                                    THEN unanswered[t] + 1 ELSE unanswered[t]]
  /\ silent' = [t \in Kinds |-> IF ~transmitted(streams[t]) THEN 0
                                ELSE IF silent[t] < LongestSilence THEN silent[t] + 1 ELSE silent[t]]
  /\ stale' = IF published # session_feedback_state(streams, measured) THEN stale + 1 ELSE 0
  /\ UNCHANGED <<streams, events, result, published>>

\* The application takes an event, or drops the receiving end of the channel.
TakeEvent ==
  /\ events.open /\ events.waiting > 0
  /\ events' = [events EXCEPT !.waiting = @ - 1]
  /\ UNCHANGED <<core, statistics, timers, result, observed>>

DropEvents ==
  /\ events.open
  /\ events' = [events EXCEPT !.open = FALSE, !.waiting = 0]
  /\ UNCHANGED <<core, statistics, timers, result, observed>>
-----------------------------------------------------------------------------
\* A producer's media clock moves on or stands still.
SubmittedFrames(t) ==
  [packets : PacketCounts, dependency : {"KeyFrame", "Delta"},
   media_timestamp : {streams[t].next_frame_id - 1, streams[t].next_frame_id} \cap Nat, duration : {1}]

Command ==
  \/ \E t \in Kinds : \E frame \in SubmittedFrames(t) :
       \/ EnqueueFrame(t, frame)
       \/ RefuseFrame(t, frame)
  \/ \E delay \in TargetDelays : SetTargetPlayoutDelay(delay)
  \/ Shutdown

Receive ==
  \/ \E compound \in Compounds : ReceiveCompound(compound)
  \/ ReceiveMalformed
  \/ ReceiveError

Timers ==
  \/ BurstTick
  \/ \E reported \in SUBSET Kinds : ReportTick(reported)
  \/ StatisticsTick
  \/ TimeoutTick

Next ==
  \/ Command
  \/ Receive
  \/ Timers
  \/ Tick
  \/ TakeEvent
  \/ DropEvents

Spec == Init /\ [][Next]_vars

\* Time passes and the loop serves its timers.  Nothing is asked of the
\* receiver, of the application or of the budget.
LoopFairness ==
  /\ WF_vars(Tick)
  /\ WF_vars(TimeoutTick)
  /\ WF_vars(StatisticsTick)
  /\ WF_vars(\E reported \in SUBSET Kinds : ReportTick(reported))

FairSpec == Spec /\ LoopFairness
-----------------------------------------------------------------------------
Measurements ==
  [target_playout_delay : TargetDelays \cup {OFFERED_PLAYOUT_DELAY},
   receiver_playout_delay : ReceiverDelays \cup {None}, current_rtt : Nat \cup {None},
   fraction_lost : LossFractions \cup {None}, nack_count : Nat, frames_dropped_or_skipped : Nat,
   sender_reports : Seq(Nat)]

\* Type of every variable.
LoopTypeOK ==
  /\ streams \in [Kinds -> Streams]
  /\ measured \in [Kinds -> Measurements]
  /\ watchdog \in [Kinds -> [waiting : Nat \cup {None}, has_acknowledged : BOOLEAN]]
  /\ statistics \in [pending : BOOLEAN, due : 0 .. STATISTICS_DEBOUNCE_INTERVAL]
  /\ timers \in [poll : 0 .. RECEIVER_TIMEOUT_POLL_INTERVAL, report : 0 .. RTCP_REPORT_INTERVAL]
  /\ events \in [waiting : 0 .. EVENT_CAPACITY, terminal : {None, "FatalError", "ReceiverTimedOut"}, open : BOOLEAN]
  /\ result \in {"Running", "Ok", "Transport", "ReceiverTimedOut"}
  /\ unanswered \in [Kinds -> Nat] /\ silent \in [Kinds -> Nat] /\ stale \in Nat

\* A watchdog is armed only while its stream has frames in flight, and it is
\* armed as long as a transmitted frame is unacknowledged: packet_sent,
\* acknowledgement_advanced and the queues agree on what is outstanding.
WatchdogFollowsStream ==
  Running => \A t \in Kinds :
    /\ watchdog[t].waiting # None => in_flight(streams[t]) # {}
    /\ transmitted(streams[t]) => watchdog[t].waiting # None

\* The session is given up only when some stream had frames in flight, and none
\* of its frames was acknowledged, for the whole timeout that applies to it.
TimeoutIsJustified ==
  result = "ReceiverTimedOut" => \E t \in Kinds : unanswered[t] >= timeout(watchdog[t])

\* A receiver that stops acknowledging is noticed: no session goes on when
\* transmitted frames have been unacknowledged for the timeout and one poll,
\* whatever else it receives and retransmits.
SilenceIsDetected ==
  Running =>
    \A t \in Kinds : silent[t] <= timeout(watchdog[t]) + RECEIVER_TIMEOUT_POLL_INTERVAL

\* An application that keeps the channel learns of every failure: whatever
\* events it left in the channel, a session that failed has sent the terminal one.
TerminalEventDelivered ==
  result \in {"Transport", "ReceiverTimedOut"} /\ events.open => events.terminal # None

\* Without a pending notification the application has been told the current
\* feedback state (or the event was dropped for lack of room), and a change is
\* announced within the debounce interval, however many follow it.
StatisticsAreCurrent ==
  /\ Running /\ ~statistics.pending => published = session_feedback_state(streams, measured)
  /\ stale <= STATISTICS_DEBOUNCE_INTERVAL

\* A frame of which a packet was sent does not stay in flight for good: it is
\* acknowledged or the session ends, even when a later frame is acknowledged
\* (by an acknowledgement vector, which restarts the watchdog) and this one
\* never is.
FramesAreSettled ==
  \A t \in Kinds, f \in 0 .. MaxFrames - 1 :
    []<>~(/\ Running /\ is_pending(streams[t], f)
          /\ \E i \in 1 .. Len(streams[t].pending[slot(f)].packets) :
               streams[t].pending[slot(f)].packets[i] \notin Range(streams[t].send_queue))
=============================================================================
