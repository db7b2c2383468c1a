-------------------------- MODULE StreamMeasurements --------------------------
(* What a StreamState measures and what it reports to the application         *)
(* (src/src/sender/stream.rs, stream_feedback_state in event_loop.rs): the    *)
(* round-trip time, losses, playout delays and counters, and the feedback     *)
(* state whose changes the event loop announces.  All durations are in one    *)
(* unit.  Left out are the numbers that are only copied to a snapshot: bytes  *)
(* and packets sent, jitter, sequence numbers, the receiver's wall clock.     *)
EXTENDS StreamState

CONSTANTS
  SENDER_REPORT_HISTORY,              \* sender reports remembered: 16 in the code
  MINIMUM_IN_FLIGHT_MEDIA_DURATION    \* 66 ms in the code

ASSUME MeasurementsAssumption ==
  {SENDER_REPORT_HISTORY, MINIMUM_IN_FLIGHT_MEDIA_DURATION} \subseteq Nat \ {0}

\* sender_reports holds the age of each report sent, oldest first.
new_measurements(target_playout_delay) ==
  [target_playout_delay      |-> target_playout_delay,
   receiver_playout_delay    |-> None,
   current_rtt               |-> None,
   fraction_lost             |-> None,
   nack_count                |-> 0,
   frames_dropped_or_skipped |-> 0,
   sender_reports            |-> << >>]

reject_frame(m) == [m EXCEPT !.frames_dropped_or_skipped = @ + 1]
count_nacks(m, nacks) == [m EXCEPT !.nack_count = @ + Len(nacks)]
update_playout_delay(m, delay) == [m EXCEPT !.receiver_playout_delay = delay]
target_delay(m, delay) == [m EXCEPT !.target_playout_delay = delay]

record_sender_report(m) ==
  [m EXCEPT !.sender_reports =
     Append(IF Len(@) = SENDER_REPORT_HISTORY THEN Tail(@) ELSE @, 0)]

\* A receiver report is [fraction_lost, last_sr, delay]: last_sr is the place
\* of the sender report it answers among those remembered, zero when it names
\* none or one no longer remembered.  A delay longer than the time since that
\* report was sent leaves no round-trip time.
update_receiver_report(m, report) ==
  LET elapsed == m.sender_reports[report.last_sr]
  IN  [m EXCEPT
         !.fraction_lost = report.fraction_lost,
         !.current_rtt = IF report.last_sr = 0 THEN @
                         ELSE IF elapsed >= report.delay THEN elapsed - report.delay ELSE None]

\* Time passes for the reports sent.
age_sender_reports(m) ==
  [m EXCEPT !.sender_reports = [i \in 1 .. Len(@) |-> @[i] + 1]]
-----------------------------------------------------------------------------
OrElse(option, default) == IF option = None THEN default ELSE option

\* Twice the round-trip time, between the minimum and a third of the delay.
max_acceptable_in_flight_duration(m) ==
  LET playout_delay == OrElse(m.receiver_playout_delay, m.target_playout_delay)
      maximum == Max({playout_delay \div 3, MINIMUM_IN_FLIGHT_MEDIA_DURATION})
  IN  Min({maximum, Max({2 * OrElse(m.current_rtt, 0), MINIMUM_IN_FLIGHT_MEDIA_DURATION})})

\* stream_feedback_state: what the application is told the changes of.
stream_feedback_state(s, m) ==
  [pressure_limited          |->
     in_flight_media_duration(s) >= max_acceptable_in_flight_duration(m),
   max_acceptable            |-> max_acceptable_in_flight_duration(m),
   current_rtt               |-> m.current_rtt,
   receiver_playout_delay    |-> m.receiver_playout_delay,
   nack_count                |-> m.nack_count,
   frames_dropped_or_skipped |-> m.frames_dropped_or_skipped,
   fraction_lost             |-> m.fraction_lost]
=============================================================================
