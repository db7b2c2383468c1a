---------------------------- MODULE ControlLoop ----------------------------
(* The Cast V2 control connection (src/src/control/mod.rs): control_loop, the *)
(* task that owns the TLS stream, correlates requests with answers, follows   *)
(* the applications of the receiver and watches its heartbeat; and the calls  *)
(* of CastConnection, which run concurrently, send it commands and wait for   *)
(* their response for a limited time.                                         *)
(*                                                                            *)
(* The receiver is external: it answers a request it was sent at any time,    *)
(* repeatedly, in any order or never, and sends statuses, errors without an   *)
(* id, closures and heartbeats of its own accord.  A reply carries the        *)
(* request it answers; the code sees the id in it and nothing else.           *)
(*                                                                            *)
(* Not actions, as they change nothing: messages of other namespaces, routes  *)
(* or types, and those that carry no id where one is needed.                  *)
EXTENDS Integers, Sequences, FiniteSets, FiniteSetsExt, TLC

CONSTANTS
  None,
  Calls,               \* calls an application makes, each once
  OperationKinds,      \* what they may be
  Apps,                \* application ids
  Transports,          \* transport ids of applications
  MAX_ID,              \* u32::MAX in the code
  COMMAND_CAPACITY,    \* of the command channel: 32 in the code
  HEARTBEAT_INTERVAL,
  HEARTBEAT_TIMEOUT,
  MaxBlocked           \* the longest a write may take that does not fail

ASSUME ControlAssumption ==
  /\ {MAX_ID, COMMAND_CAPACITY, HEARTBEAT_INTERVAL, HEARTBEAT_TIMEOUT} \subseteq Nat \ {0}
  /\ MaxBlocked \in Nat
  /\ None \notin Calls \cup Apps \cup Transports

VARIABLES
  calls,         \* the calls: [op, command, phase, response]
  channel,       \* commands on their way to the loop: the calls they are from
  pending,       \* table -> id -> call
  next_id,       \* table -> next id to try
  known_apps,    \* transport -> application or None
  session_ids,   \* the known transports whose session id is not empty
  heartbeat,     \* [due, ready, since, unread]
  blocked,       \* time the write under way still takes
  owner,         \* the CastConnection: "Open", "Closing" or "Dropped"
  result,        \* "Running", or why the loop ended
  \* Not in the code:
  written,       \* the requests written: [call, id]
  stopped,       \* transports not listed since their ApplicationStopped was sent
  torn_down,     \* what send_teardown has written: <<"CLOSE" or "STOP", transport>>
  quiet          \* time since a heartbeat arrived, up to HEARTBEAT_TIMEOUT

tables == <<pending, next_id, written>>
apps == <<known_apps, session_ids, stopped, torn_down>>
clock == <<heartbeat, quiet>>
vars == <<calls, channel, tables, apps, clock, blocked, owner, result>>
-----------------------------------------------------------------------------
\* A call's operation and what it is about.
Subjects(kind) ==
  CASE kind \in {"Availability", "Launch"} -> Apps
    [] kind \in {"Stop", "Offer"}          -> Transports
    [] OTHER                               -> {None}

Operations ==
  {op \in [kind : OperationKinds, of : Apps \cup Transports \cup {None}] : op.of \in Subjects(op.kind)}

\* The three tables of pending requests, each with its own ids.
Tables == {"receiver", "product_info", "offers"}
table(c) ==
  CASE calls[c].op.kind \in {"DeviceInfo", "EurekaInfo"} -> "product_info"
    [] calls[c].op.kind = "Offer"                        -> "offers"
    [] OTHER                                             -> "receiver"

\* ok: a value and no error; by: the call it was an answer to, None when the
\* message named none; shows: the transport a launched application was seen at.
no_response == [ok |-> FALSE, by |-> None, shows |-> None]

\* stop() sends CLOSE to the application before its STOP request.
first_command(kind) ==
  CASE kind = "Stop" -> "Fire" [] kind = "Close" -> "Close" [] OTHER -> "Request"

successor(id) == (id % MAX_ID) + 1

\* Bugs: the lowest free id, an id that may be in use.
allocate_id_lowest(next, used) == Min((1 .. MAX_ID) \ used)
allocate_id_unchecked(next, used) == next

\* The first id from `next` on, around the end, that no pending request uses.
allocate_id(next, used) ==
  LET nth(k) == ((next - 1 + k) % MAX_ID) + 1
  IN  nth(Min({k \in 0 .. MAX_ID - 1 : nth(k) \notin used}))

\* The top of the loop: requests that are answered, or whose caller has given
\* up, leave the tables.
retain(tbls, cs) ==
  [t \in Tables |-> [i \in {j \in DOMAIN tbls[t] : cs[tbls[t][j]].phase = "Waiting"} |-> tbls[t][i]]]

respond(cs, responses) ==
  [c \in Calls |-> IF c \in DOMAIN responses /\ cs[c].phase = "Waiting"
                   THEN [cs[c] EXCEPT !.phase = "Answered", !.response = responses[c]]
                   ELSE cs[c]]

\* The call pending under the id of the request a message answers.
correlated(t, by) ==
  IF by # None /\ by.id \in DOMAIN pending[t] THEN {pending[t][by.id]} ELSE {}

pending_calls(t) == {pending[t][i] : i \in DOMAIN pending[t]}
-----------------------------------------------------------------------------
Init ==
  /\ calls = [c \in Calls |-> [op |-> None, command |-> None, phase |-> "Idle", response |-> no_response]]
  /\ channel = << >>
  /\ pending = [t \in Tables |-> << >>]
  /\ next_id = [t \in Tables |-> 1]
  /\ known_apps = [t \in Transports |-> None]
  /\ heartbeat = [due |-> HEARTBEAT_INTERVAL, ready |-> FALSE, since |-> 0, unread |-> None]
  /\ blocked = 0
  /\ owner = "Open"
  /\ result = "Running"
  /\ session_ids = {} /\ written = {} /\ stopped = {} /\ torn_down = {} /\ quiet = 0

Running == result = "Running"

\* The loop is in its select!; for Reading the next message is not a heartbeat
\* (a message sent ahead of a heartbeat is read before that arrives).
Selecting == Running /\ blocked = 0
Reading == Selecting /\ heartbeat.unread = None

\* A bug: the pending requests fail, the commands still queued are kept.
End_without_draining(reason) ==
  /\ result' = reason
  /\ calls' = [c \in Calls |-> IF calls[c].phase \in {"Firing", "Waiting"}
                               THEN [calls[c] EXCEPT !.phase = "Answered", !.response.ok = FALSE]
                               ELSE calls[c]]
  /\ pending' = [t \in Tables |-> << >>]
  /\ UNCHANGED channel

\* After the loop: fail_all_pending, and the channel is dropped with what is
\* in it.
End(reason) ==
  /\ result' = reason
  /\ calls' = [c \in Calls |-> IF calls[c].phase \in {"Queued", "Firing", "Waiting"}
                               THEN [calls[c] EXCEPT !.phase = "Answered", !.response.ok = FALSE]
                               ELSE calls[c]]
  /\ pending' = [t \in Tables |-> << >>]
  /\ channel' = << >>

\* The loop goes round.
Continue(cs, tbls) ==
  /\ calls' = cs
  /\ pending' = retain(tbls, cs)
  /\ UNCHANGED result

\* A write has ended: the call whose SendFire it was is answered.
fired(cs) ==
  [c \in Calls |-> IF cs[c].phase = "Firing"
                   THEN [cs[c] EXCEPT !.phase = "Answered", !.response.ok = TRUE] ELSE cs[c]]

\* write_json_message_timed as the last step of an arm.  It succeeds, at once or
\* after some time, in which the loop does nothing else; or it fails.
Write(cs, tbls, queue) ==
  \/ blocked' = 0 /\ channel' = queue /\ Continue(fired(cs), tbls)
  \/ blocked' \in 1 .. MaxBlocked /\ channel' = queue /\ calls' = cs /\ pending' = tbls /\ UNCHANGED result
  \/ End("Error") /\ UNCHANGED blocked

WriteFails ==
  /\ Running /\ blocked > 0
  /\ End("Error")
  /\ blocked' = 0
  /\ UNCHANGED <<next_id, written, apps, clock, owner>>
-----------------------------------------------------------------------------
\* Calls.  close(self) and dropping the connection need every borrow ended.
Unborrowed == \A c \in Calls : calls[c].phase \in {"Idle", "Done"}

Issue(c, op) ==
  /\ calls[c].phase = "Idle" /\ owner = "Open"
  /\ op.kind = "Close" => Unborrowed
  /\ calls' = [calls EXCEPT ![c] = [op |-> op, command |-> first_command(op.kind),
                                    phase |-> "Sending", response |-> no_response]]
  /\ owner' = IF op.kind = "Close" THEN "Closing" ELSE owner
  /\ UNCHANGED <<channel, tables, apps, clock, blocked, result>>

\* command_sender.send: waits for room, fails when the loop has ended.
Send(c) ==
  /\ calls[c].phase = "Sending"
  /\ \/ /\ Running /\ Len(channel) < COMMAND_CAPACITY
        /\ channel' = Append(channel, c)
        /\ calls' = [calls EXCEPT ![c].phase = "Queued"]
     \/ /\ ~Running
        /\ calls' = [calls EXCEPT ![c].phase = "Done", ![c].response.ok = FALSE]
        /\ UNCHANGED channel
  /\ UNCHANGED <<tables, apps, clock, blocked, owner, result>>

\* REQUEST_TIMEOUT runs out, or the call is cancelled: its response channel is
\* closed.  close() waits for the task instead.
GiveUp(c) ==
  /\ calls[c].phase \in {"Queued", "Firing", "Waiting"} /\ calls[c].command # "Close"
  /\ calls' = [calls EXCEPT ![c].phase = "Done", ![c].response.ok = FALSE]
  /\ UNCHANGED <<channel, tables, apps, clock, blocked, owner, result>>

\* The call takes its response.  launch() goes on with CONNECT to the
\* application, if the status gave it a transport; stop() with its request.
Proceed(c) ==
  LET call      == calls[c]
      launching == call.op.kind = "Launch" /\ call.command = "Request"
      stopping  == call.op.kind = "Stop" /\ call.command = "Fire"
  IN  /\ call.phase = "Answered"
      /\ calls' = [calls EXCEPT ![c] =
           IF call.response.ok /\ (stopping \/ (launching /\ call.response.shows # None))
           THEN [call EXCEPT !.phase = "Sending", !.command = IF launching THEN "Fire" ELSE "Request",
                             !.response.ok = FALSE]
           ELSE [call EXCEPT !.phase = "Done", !.response.ok = @ /\ ~launching]]
      /\ UNCHANGED <<channel, tables, apps, clock, blocked, owner, result>>

DropConnection ==
  /\ owner = "Open" /\ Unborrowed
  /\ owner' = "Dropped"
  /\ UNCHANGED <<calls, channel, tables, apps, clock, blocked, result>>
-----------------------------------------------------------------------------
\* The loop takes a command.  A request is entered in its table and written
\* even when its caller has given up meanwhile.
TakeRequest ==
  LET c  == Head(channel)
      t  == table(c)
      id == allocate_id(next_id[t], DOMAIN pending[t])
  IN  /\ Selecting
      /\ channel # << >> /\ calls[c].command = "Request"
      /\ Cardinality(DOMAIN pending[t]) < MAX_ID
      /\ next_id' = [next_id EXCEPT ![t] = successor(id)]
      /\ written' = written \cup {[call |-> c, id |-> id]}
      /\ Write([calls EXCEPT ![c].phase = IF @ = "Queued" THEN "Waiting" ELSE @],
               [pending EXCEPT ![t] = [i \in DOMAIN @ \cup {id} |-> IF i = id THEN c ELSE @[i]]],
               Tail(channel))
      /\ UNCHANGED <<apps, clock, owner>>

\* SendFire.
TakeFire ==
  LET c == Head(channel)
  IN  /\ Selecting
      /\ channel # << >> /\ calls[c].command = "Fire"
      /\ Write([calls EXCEPT ![c].phase = IF @ = "Queued" THEN "Firing" ELSE @], pending, Tail(channel))
      /\ UNCHANGED <<next_id, written, apps, clock, owner>>

known == {t \in Transports : known_apps[t] # None}

\* What send_teardown writes to applications: CLOSE to each, and STOP for its
\* session, where it has an id.
send_teardown(closing) == ({"CLOSE"} \X closing) \cup ({"STOP"} \X (closing \cap session_ids))

\* Close, or all senders dropped and the channel drained.  The teardown ends at
\* the first write that fails, which may be one of those of an application.
TakeClose ==
  /\ Selecting
  /\ IF channel = << >> THEN owner = "Dropped" ELSE calls[Head(channel)].command = "Close"
  /\ \/ End("Requested") /\ torn_down' = send_teardown(known)
     \/ /\ End("Error")
        /\ \E done \in SUBSET known, last \in SUBSET known :
             Cardinality(last) <= 1 /\ torn_down' = send_teardown(done) \cup ({"CLOSE"} \X last)
  /\ UNCHANGED <<next_id, written, known_apps, session_ids, stopped, clock, blocked, owner>>
-----------------------------------------------------------------------------
\* Messages.  RECEIVER_STATUS: `listed` are the applications with a transport,
\* `sessions` those of them with a session id, `starting` those listed without a
\* transport, which parse_cast_app skips.
publish_receiver_status_silent(listed, sessions) ==   \* a bug: ApplicationStopped is not sent
  known_apps' = listed /\ session_ids' = sessions /\ UNCHANGED stopped

publish_receiver_status(listed, sessions) ==
  /\ known_apps' = listed
  /\ session_ids' = sessions
  /\ stopped' = {t \in stopped \cup known : listed[t] = None}

\* The requests a status completes: the one it names, unless that waits for
\* something else, or else every launch whose application it shows.
completed_by_status(by, shown) ==
  LET launched == {c \in pending_calls("receiver") : calls[c].op.kind = "Launch" /\ calls[c].op.of \in shown}
      named    == {c \in correlated("receiver", by) :
                     calls[c].op.kind \in {"SetVolume", "Status", "Stop"} \/ c \in launched}
  IN  IF named # {} THEN named ELSE launched

\* The first of the listed transports of an application.
transport_of(listed, app) ==
  IF \E t \in Transports : listed[t] = app THEN CHOOSE t \in Transports : listed[t] = app ELSE None

ReceiverStatus(by, listed, sessions, starting) ==
  LET shown == ({listed[t] : t \in Transports} \ {None}) \cup starting
      who   == completed_by_status(by, shown)
  IN  /\ Reading
      /\ publish_receiver_status(listed, sessions)
      /\ Continue(respond(calls, [c \in who |->
           [ok |-> TRUE, by |-> IF by = None THEN None ELSE by.call,
            shows |-> IF calls[c].op.kind = "Launch" THEN transport_of(listed, calls[c].op.of) ELSE None]]), pending)
      /\ UNCHANGED <<channel, next_id, written, torn_down, clock, blocked, owner>>

\* A message that completes or fails the calls `who` and changes nothing else.
Settle(who, ok, by) ==
  /\ Reading
  /\ Continue(respond(calls, [c \in who |->
       [ok |-> ok, by |-> IF by = None THEN None ELSE by.call, shows |-> None]]), pending)
  /\ UNCHANGED <<channel, next_id, written, apps, clock, blocked, owner>>

\* GET_APP_AVAILABILITY.
AppAvailability(by) ==
  Settle({c \in correlated("receiver", by) : calls[c].op.kind = "Availability"}, TRUE, by)

\* An error without an id belongs to the only request it can be about.
Only(who) == IF Cardinality(who) = 1 THEN who ELSE {}

\* LAUNCH_ERROR and INVALID_REQUEST of the platform.
ReceiverError(by, app) ==
  Settle(IF by # None THEN correlated("receiver", by)
         ELSE Only({c \in pending_calls("receiver") :
                      app # None => calls[c].op = [kind |-> "Launch", of |-> app]}), FALSE, by)

\* A reply on a product-info namespace, of an accepted type or not.
ProductInfo(by, kind, accepted) ==
  Settle({c \in correlated("product_info", by) : calls[c].op.kind = kind}, accepted, by)

\* ANSWER and INVALID_REQUEST of an application.
complete_offer(by, source) == {c \in correlated("offers", by) : calls[c].op.of = source}

Answer(by, source) == Settle(complete_offer(by, source), TRUE, by)

OfferError(by, source) ==
  Settle(IF by # None THEN complete_offer(by, source)
         ELSE Only({c \in pending_calls("offers") : calls[c].op.of = source}), FALSE, by)

\* CLOSE of an application: it is forgotten and offers to it fail.
ApplicationClose(source) ==
  /\ Reading
  /\ known_apps' = [known_apps EXCEPT ![source] = None]
  /\ session_ids' = session_ids \ {source}
  /\ stopped' = stopped \cup ({source} \cap known)
  /\ Continue(respond(calls, [c \in {o \in pending_calls("offers") : calls[o].op.of = source} |-> no_response]), pending)
  /\ UNCHANGED <<channel, next_id, written, torn_down, clock, blocked, owner>>

\* CLOSE of the platform or the end of the stream; a read error, or a message
\* that does not parse.
Disconnect(reason) ==
  /\ Reading
  /\ End(reason)
  /\ UNCHANGED <<next_id, written, apps, clock, blocked, owner>>
-----------------------------------------------------------------------------
\* A heartbeat arrives (external) and is read; a PING is answered.
HeartbeatArrives(kind) ==
  /\ Running /\ heartbeat.unread = None
  /\ heartbeat' = [heartbeat EXCEPT !.unread = kind]
  /\ quiet' = 0
  /\ UNCHANGED <<calls, channel, tables, apps, blocked, owner, result>>

ReadHeartbeat ==
  /\ Selecting /\ heartbeat.unread # None
  /\ heartbeat' = [heartbeat EXCEPT !.unread = None, !.since = 0]
  /\ IF heartbeat.unread = "PING" THEN Write(calls, pending, channel)
     ELSE Continue(calls, pending) /\ UNCHANGED <<channel, blocked>>
  /\ UNCHANGED <<next_id, written, apps, quiet, owner>>

\* A bug: our own PING counts as a heartbeat.
HeartbeatTick_counting_own ==
  /\ Selecting /\ heartbeat.ready
  /\ heartbeat' = [heartbeat EXCEPT !.ready = FALSE, !.since = 0]
  /\ Write(calls, pending, channel)
  /\ UNCHANGED <<next_id, written, apps, quiet, owner>>

\* heartbeat.tick(): the deadline is looked at, then a PING is written.
HeartbeatTick ==
  /\ Selecting /\ heartbeat.ready
  /\ heartbeat' = [heartbeat EXCEPT !.ready = FALSE]
  /\ IF heartbeat.since >= HEARTBEAT_TIMEOUT
     THEN End("HeartbeatTimeout") /\ UNCHANGED blocked
     ELSE Write(calls, pending, channel)
  /\ UNCHANGED <<next_id, written, apps, quiet, owner>>

\* One unit of time passes: in a write, or with no heartbeat and no tick to
\* serve.  Ticks missed in a write are skipped but for one.  A write that ends
\* lets the loop go round.
Tick ==
  LET older(age) == IF age < HEARTBEAT_TIMEOUT THEN age + 1 ELSE age
  IN  /\ Running
      /\ blocked > 0 \/ (heartbeat.unread = None /\ ~heartbeat.ready)
      /\ blocked' = IF blocked > 0 THEN blocked - 1 ELSE 0
      /\ heartbeat' = [heartbeat EXCEPT !.due = IF @ = 1 THEN HEARTBEAT_INTERVAL ELSE @ - 1,
                                        !.ready = @ \/ heartbeat.due = 1,
                                        !.since = older(@)]
      /\ quiet' = older(quiet)
      /\ IF blocked = 1 THEN Continue(fired(calls), pending) ELSE UNCHANGED <<calls, pending, result>>
      /\ UNCHANGED <<channel, next_id, written, apps, owner>>
-----------------------------------------------------------------------------
Caller ==
  \/ \E c \in Calls :
       \/ \E op \in Operations : Issue(c, op)
       \/ Send(c)
       \/ GiveUp(c)
       \/ Proceed(c)
  \/ DropConnection

Command == TakeRequest \/ TakeFire \/ TakeClose

\* What a reply to a request of a table may be about.
Sent(t) == {request \in written : table(request.call) = t}

Message ==
  \/ \E by \in Sent("receiver") \cup {None} :
       \/ \E listed \in [Transports -> Apps \cup {None}], starting \in SUBSET Apps :
            \E sessions \in SUBSET {t \in Transports : listed[t] # None} :
              ReceiverStatus(by, listed, sessions, starting)
       \/ \E app \in Apps \cup {None} : ReceiverError(by, app)
  \/ \E by \in Sent("receiver") : AppAvailability(by)
  \/ \E by \in Sent("product_info"), kind \in {"DeviceInfo", "EurekaInfo"}, accepted \in BOOLEAN :
       ProductInfo(by, kind, accepted)
  \/ \E source \in Transports :
       \/ \E by \in Sent("offers") : Answer(by, source)
       \/ \E by \in Sent("offers") \cup {None} : OfferError(by, source)
       \/ ApplicationClose(source)
  \/ \E reason \in {"PeerClosed", "Error"} : Disconnect(reason)

Heartbeat ==
  \/ \E kind \in {"PING", "PONG"} : HeartbeatArrives(kind)
  \/ ReadHeartbeat
  \/ HeartbeatTick
  \/ Tick

Next == Caller \/ Command \/ WriteFails \/ Message \/ Heartbeat

Spec == Init /\ [][Next]_vars

\* Callers are polled and give up after REQUEST_TIMEOUT; select! picks among its
\* ready arms at random, so none is passed over for ever; time passes.  Nothing
\* is asked of the receiver.
ControlFairness ==
  /\ \A c \in Calls : WF_vars(Send(c) \/ GiveUp(c) \/ Proceed(c))
  /\ SF_vars(Command)
  /\ SF_vars(ReadHeartbeat)
  /\ SF_vars(HeartbeatTick)
  /\ WF_vars(Tick)

FairSpec == Spec /\ ControlFairness
-----------------------------------------------------------------------------
\* Type of every variable.
CallStates ==
  [op : Operations \cup {None}, command : {None, "Request", "Fire", "Close"},
   phase : {"Idle", "Sending", "Queued", "Firing", "Waiting", "Answered", "Done"},
   response : [ok : BOOLEAN, by : Calls \cup {None}, shows : Transports \cup {None}]]

ControlTypeOK ==
  /\ calls \in [Calls -> CallStates]
  /\ channel \in Seq(Calls) /\ Len(channel) <= COMMAND_CAPACITY
  /\ DOMAIN pending = Tables
  /\ \A t \in Tables : \A id \in DOMAIN pending[t] : id \in 1 .. MAX_ID /\ pending[t][id] \in Calls
  /\ next_id \in [Tables -> 1 .. MAX_ID]
  /\ written \subseteq [call : Calls, id : 1 .. MAX_ID]
  /\ known_apps \in [Transports -> Apps \cup {None}]
  /\ session_ids \subseteq Transports /\ stopped \subseteq Transports
  /\ torn_down \subseteq {"CLOSE", "STOP"} \X Transports
  /\ heartbeat \in [due : 1 .. HEARTBEAT_INTERVAL, ready : BOOLEAN, since : 0 .. HEARTBEAT_TIMEOUT,
                    unread : {None, "PING", "PONG"}]
  /\ quiet \in 0 .. HEARTBEAT_TIMEOUT /\ blocked \in 0 .. MaxBlocked
  /\ owner \in {"Open", "Closing", "Dropped"}
  /\ result \in {"Running", "Requested", "PeerClosed", "HeartbeatTimeout", "Error"}

\* A call that waits is in its table under the very id its request was written
\* with, so an answer can reach it: no other request takes its entry when ids
\* wrap, and none waits for a loop that has ended.
WaitingCallsArePending ==
  \A c \in Calls : calls[c].phase = "Waiting" =>
    \E id \in DOMAIN pending[table(c)] :
      pending[table(c)][id] = c /\ [call |-> c, id |-> id] \in written

\* A call that succeeds was given the answer to its own request, not a late one
\* to a request that timed out (as long as the ids have not come round in
\* between: Calls are no more than MAX_ID).  A launch is left out: it may be
\* completed by any status that shows its application.
AnswersAreOwn ==
  \A c \in Calls :
    calls[c].command = "Request" /\ calls[c].response.ok /\ calls[c].op.kind # "Launch"
      => calls[c].response.by = c

\* "Stop known applications and close the control channel gracefully": an
\* application that was launched is not forgotten.  As long as nobody was told that
\* it stopped it is known, and an orderly close closes it, even when the launch
\* failed after the application had started; it also stops it if the last status
\* gave it a session id.  Without one, which parse_cast_app accepts, there is
\* nothing STOP could name: the application is closed and not stopped.
LaunchedAppsAreStopped ==
  \A c \in Calls :
    LET t == calls[c].response.shows
    IN  /\ Running /\ t # None => t \in known \cup stopped
        /\ result = "Requested" /\ t # None /\ t \notin stopped =>
             <<"CLOSE", t>> \in torn_down /\ (t \in session_ids => <<"STOP", t>> \in torn_down)

\* Every call returns, close() included, whatever the receiver does: as each is
\* made once, there is always a time to come when none is under way.
CallsReturn == []<>Unborrowed

\* A receiver whose heartbeats end is noticed: either heartbeats keep arriving or
\* the loop ends.
SilentReceiverIsLeft == []<>(heartbeat.unread # None) \/ <>~Running

\* ControlCloseReason::HeartbeatTimeout: "No Cast heartbeat arrived before the
\* deadline."
HeartbeatTimeoutMeansSilence == result = "HeartbeatTimeout" => quiet >= HEARTBEAT_TIMEOUT
=============================================================================
