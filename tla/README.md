# A verification of chromiacast

chromiacast is the sending side of Cast Streaming: it finds and authenticates a
receiver, launches an application on it, negotiates streams and then sends
encoded frames over UDP until the session ends. It also pairs with Android TV
devices and drives their remote control. This directory holds TLA+ models of the
parts that keep state, the TLC configurations that check them on small
instances, and TLAPS proofs of all of the safety properties for every value of
the constants. `PROJECT.json` lists components, runs, mutants, hazards,
findings and theorems, and maps every definition to the lines it models. Source
paths start with `src/`, the root of the repository.

Check a model with `tlc -config X.cfg M` and a proof with `tlapm M.tla`.

## The system

| part | state | operations | interacts with |
|---|---|---|---|
| frame ids (`frame.rs`) | none | truncate to 8 bits, expand near or below a reference | stream, RTCP |
| stream (`sender/stream.rs`) | 120-slot window, checkpoint, send and retransmit queues, measurements | enqueue, acknowledge up to, acknowledge bits, NACK, next packet, reports | event loop |
| packetizer, RTCP codec (`rtp.rs`, `rtcp.rs`) | sequence number | cut frames, parse compounds, build sender reports | stream, event loop |
| pacing (`BurstBudget` in `sender/event_loop.rs`) | credit in bytes, fraction | refill, consume | event loop |
| event loop (`sender/event_loop.rs`) | both streams, watchdogs, debounce, timers, event channel | one `select!`: commands, datagrams, four timers | application, network |
| session (`sender/mod.rs`, `offer.rs`, `answer.rs`) | offer, command channel, task | build, start, send, set delay, shutdown | event loop, application |
| control loop (`control/mod.rs`) | pending requests by id, known applications, heartbeat | one `select!`: messages, commands, heartbeat | TLS stream, callers |
| framing (`control/framing.rs`, `android_tv/framing.rs`) | bytes of a partial message | read, write, cancelled and resumed | control loop, Android TV |
| receiver lookup (`discovery.rs`, `control/auth.rs`, `setup.rs`) | devices by id, one exchange, one response | resolve and remove services, challenge, query | mDNS, control connection |
| Android TV (`android_tv/pairing.rs`, `remote_session.rs`) | step of an exchange, handshake phase, close state | begin, finish, key commands, pings, close | TLS stream |

What makes it hard: 8-bit ids in datagrams that are lost, repeated and
reordered; acknowledgements that race packets still queued; a watchdog that
must notice silence without ending a healthy session; notifications that are
coalesced and may be dropped; requests that time out while their answers are
under way; calls that are cancelled half way. The `hazards` of `PROJECT.json`
give the line each one bites.

## Modules

| module | models |
|---|---|
| `FrameIds` | `truncate`, `expand`, `expand_lte` of `frame.rs`, for any modulus |
| `StreamState` | the window and the queues of `stream.rs` as operators from state to state |
| `CastStream` | one stream driven by the loop, a datagram network and a receiver |
| `AckWindow`, `CastStreamRefinement` | what a stream promises; the mapping that shows `CastStream` implements it; fairness |
| `BurstBudget` | the pacing arithmetic under flushes at arbitrary times |
| `StreamMeasurements`, `SenderLoop` | what the application is told of a stream; the whole event loop with two streams, watchdogs, debounce, event channel |
| `Offers`, `SenderSession` | building an offer; the session an application holds: negotiation, command channel, calls, shutdown |
| `ControlLoop` | the Cast V2 control loop and the calls of `CastConnection` |
| `FramedStream`, `FramedReader`, `VarintReader`, `Framing` | a stream of framed messages and a caller that cancels reads; the control and the Android TV reader; one or the other |
| `PairingSession`, `RemoteSession`, `AndroidTv` | pairing; the remote: handshake, task, key calls, close; the first, then the second |
| `Timeouts`, `Discovery`, `ReceiverAuth`, `SetupQuery`, `ReceiverLookup` | the clock of the calls; finding devices; connecting and authenticating; the setup query; the three in turn |
| `MCSenderSession`, `MCReceiverLookup` | instances for TLC whose constants need definitions |
| `StreamStateProofs`, `CastStreamProofs`, `SenderLoopProofs`, `SenderSessionProofs`, `ControlLoopProofs`, `FramingProofs`, `AndroidTvProofs`, `ReceiverLookupProofs` | the theorems |

**Stream.** A stream is a record with the fields of `StreamState` that decide
anything. A frame is its number of packets, its dependency, timestamp and
duration; a packet is its frame id, its packet id and the last packet id. The
operators keep the code's names. `enqueue_error` is the chain of early returns of
`enqueue_frame`, `accept_frame` its success; `process_feedback` is the part of
that function about one stream's window.

**CastStream.** `EnqueueFrame`, `ReceiveFeedback` and `BurstTick` are the loop's
arms, each with the flush that ends it; the budget pays for any number of queued
packets. The receiver and the network are external. The receiver is the one the
sender is written for: it finishes frames in any order, may give a frame up, and
reports its checkpoint, finished frames and missing packets whenever it likes.
The network is a set, so datagrams are reordered and duplicated, and it may drop
any. Datagrams carry their full id for the properties; the code only ever sees
the truncated one.

**SenderLoop.** Every arm of `run` is an action, including its trailing flush,
watchdog update and debounce, with the failure of any send inside it. Here the
receiver is arbitrary: any checkpoint, bits, NACKs and reports. Time passes in
units and stops while a timer is due. Ghost variables record how long frames
have been unanswered and how long the published statistics have been stale.

**SenderSession.** `Build` is `OfferBuilder::build`, `Start` is `start_address`
with `Answer::validate`. A call goes through the phases of its future: waiting
for room in the channel, queued, answered, done; it can be cancelled in each. The
event loop is reduced to what callers see of it: it serves commands in order and
may fail at any moment, which covers every way `SenderLoop` ends. A delay that is
set becomes the target of every stream at once and waits there for the next frame.

**ControlLoop.** One action per arm of `control_loop` and per kind of message, and
one per step of a call. A reply carries the request it answers for the
properties; the code sees only the id. A write takes time, succeeds or fails, and
the loop reads nothing meanwhile. A status lists applications with or without a
session id: the teardown sends CLOSE to each and STOP only to those that have one.

**Framing.** Bytes carry the message and place they come from. A read may return
any number of bytes, and `select!` may drop it at any await; only what the reader
keeps in its fields survives. Malformed bodies, lengths of zero, over the limit
and too large for the varint are sent too.

**AndroidTv.** A pairing reads what the device has sent, in order and maybe sent
before it was asked for; each of its awaits may time out or fail. In the remote,
messages have any combination of fields, each write may fail, and the answers to
one message are written in the code's order. Dropping the handle aborts the task.

**ReceiverLookup.** Services are resolved and removed in any order. The sort of the
routes does not look at ports and `dedup` drops only neighbours, so a list can
hold a route twice; the model does the same. Cryptography is ideal: a signature
is the key and what was signed, a chain is a path of issuers. A response of the
setup port is a sequence of bytes read in pieces of any size. What one call
leaves behind and the next does not read is reset between them (`link = "Kept"`).
One timeout runs at a time (`remaining`): discover's deadline is set once, each of
the five waits of connect (TCP, TLS, the challenge, its reply, CONNECT) sets its
own, the query sets one for all it does. `elapsed` is the time since the call was
made. Time passes in units and not past a timeout that is up.

## Runs

| run | what it shows | bounds |
|---|---|---|
| `stream_window` | The window is sound and only packets of frames in flight are queued; every frame is counted once; frames are released only once finished; wire ids are unambiguous; nothing moves backwards. | 8 frames, modulus 6, window 2: ids wrap with old datagrams still under way; one frame of two packets, empty ones too |
| `stream_live` | The refinement of `AckWindow`; a frame the receiver has heard of is acknowledged. | 3 frames, one of them in two packets |
| `pacing` | The budget is exact and what a session sends is bounded. | time to 9 units of a quarter second, rate 3, so every refill leaves a fraction |
| `loop_silence` | The loop gives the receiver up only with cause, notices silence of either stream, and settles every transmitted frame. | audio and video, 2 frames, late and repeated acknowledgements, the second frame acknowledged before the first or without it |
| `loop_statistics` | The terminal event always fits; statistics are current and never late. | event channel of 3 with 2 reserved |
| `control_calls` | Answers are the caller's own; launched applications are closed on close, and stopped where they have a session id. | 2 calls of any kind, 2 ids, 1 application |
| `control_live` | No pending request loses its place when ids come round; every call returns; a silent receiver is left. | 3 calls, for the status or to close, over 2 ids, channel of 1, slow writes |
| `control_heartbeat` | A heartbeat timeout does not mean silence (the finding below). | one call, writes of up to 3 units |
| `framing` | Messages come out whole and in order and cancelling loses nothing, for both readers. | 3 messages, lengths of 2 bytes |
| `android_tv` | Secrets are earned and a pairing that succeeds is recorded; keys are negotiated and sent once, pings answered, the published state is the latest; every call returns. | 2 pairings, 2 unread messages, 2 calls, messages of up to 2 fields |
| `session` | An offer says what was configured; which answers start a session and with what; delays reach every stream, frames keep their order, shutdown reports the loop's result, every call returns. | offers of up to 3, every answer of up to 2, misaligned ones included, 2 calls, delays around both limits of the wire format |
| `receiver` | The devices and routes listed are those announced; a connection that opens has a proven identity that is not revoked; a response is understood however it is cut; every call takes the time it should. | 4 announcements, 2 connects, timeouts of 1 or 2 units, every reply of `MCReceiverLookup`, responses of up to 20 bytes and damaged ones |

The bounds (`Max...`) are guards on inputs, never state constraints. Modulus,
window and timeouts are small but keep the code's relations: twice the window is
less than the modulus (240 of 256) and the initial timeout is not below the
later one. Channels of one or two are full with a single call waiting. Runs of a
session, a connection or a lookup do not check deadlock because they end.

**Fairness.** `loop_silence` asks only that time passes and that the loop serves
its timers, which tokio guarantees to a task that does not block. `stream_live`
is about the protocol, so it also asks that the burst timer ticks, that the
receiver keeps reporting and that the network delivers what is sent again and
again. The producer is never assumed fair. `session`, `control_live` and
`android_tv` ask that each caller is polled and that the task gets to its
commands and timers, since `select!` picks at random among ready arms; strong
fairness is used where other arms can take an arm's turn again and again.
`android_tv` asks that deadlines run out. Nothing is asked of the peer. `receiver`
asks for no fairness: that its calls end in time is a matter of safety. `framing` asks that the read is polled again and, with bytes there,
sometimes wins.

**Finding.** `src/src/control/mod.rs:128` documents `HeartbeatTimeout` as "No Cast
heartbeat arrived before the deadline." `last_heartbeat` is set when a heartbeat
is read. After a slow write both the tick and a waiting heartbeat are ready, and
`select!` may take the tick first. `SilentReceiverIsLeft` is the direction that
holds.

Worth knowing, though no run is about it: `src/src/constants.rs:16` calls the burst
bitrate a pacing ceiling, but a flush sends while any credit is left and `consume`
saturates at zero, so each flush may send almost a packet more than its credit.
`SentWithinBudget` is the bound that holds: the rate, one full budget, and less
than a packet per flush.

Also, `src/src/discovery.rs:94` describes `endpoints()` as "All currently resolved"
routes, while `merge_device` only adds: a route that a later resolution of the
same instance no longer has, or whose instance was removed after the device was
resolved under another, stays listed until the device goes. The doc of `discover`
has it the code's way: "Every usable address is retained". `RoutesAreKept` claims
what both agree on, that every current route is listed and none that was never
announced. And `close` is documented to "Stop known applications"
(`LaunchedAppsAreStopped`), but a status may list an application without a session
id, and such a one is closed and not stopped (`src/src/control/mod.rs:1468`).

**Mutants.** Each property of a passing run has a mutant, a plausible bug written
just before the definition it changes, that breaks it under the same bounds.

## Proofs

Every safety invariant and action property of the passing runs is a theorem, for
every value of the constants the assumptions allow: any modulus and window, any
number of frames, packets, calls, streams offered, ids, messages and channel
slots, any byte size and message lengths, any services, certificates, replies,
revocation lists and HTTP responses. None of the properties is inductive as it
stands. Each proof module states the invariant that is, proves that it holds at
first and that each action keeps it (a lemma per action), and draws the properties
from it.

| module | theorems | inductive invariant, and why it is needed |
|---|---|---|
| `StreamStateProofs` | `expand` and `expand_lte` are exact within half a modulus, and a modulus, of their reference; feedback of any content keeps a stream sound (`ProcessFeedbackInv`); lemmas on every operator of `StreamState` | `stream_inv`: the window, the packets of a slot, the queues; `accounted`: what was accepted is in flight or counted |
| `CastStreamProofs` | `WindowIsSound`, `ReleasedFramesAreFinished`, `WireIdsAreUnambiguous`, `FramesAreAccountedFor`, `NoRegression`, the refinement of `AckWindow` | `IInv`. That a release is justified depends on every datagram under way telling the truth about the receiver and being young enough for its id to expand, which depends in turn on the sender's checkpoint being behind the receiver's and on the window |
| `SenderLoopProofs` | `TimeoutIsJustified`, `SilenceIsDetected`, `TerminalEventDelivered`, `StatisticsAreCurrent`, `WatchdogFollowsStream`; of the pacing `RefillIsExact`, `SentWithinBudget` | `IInv`. `WatchdogInv` relates the watchdog to the time frames were unanswered and to the next poll; `StatisticsInv` to the debounce; `EventsInv` keeps the reserved slots free. `BudgetInv`: what was sent beyond the credit, by the number of flushes |
| `SenderSessionProofs` | `OfferIsAsConfigured`, `StartMatchesAnswer`, `DelaysReachEveryStream`, `FramesKeepOrder`, `ShutdownReturnsResult` | `SessionInv`. Delays: what a stream was told, the one that waits included, ends in the last delay set. Order: a call that was over before another was made is not behind it in the channel either. `OfferIsBuilt`: the offer is what `build` returns |
| `ControlLoopProofs` | `WaitingCallsArePending`, `LaunchedAppsAreStopped`, `AnswersAreOwn` | `IInv`: a call writes its request once, what is pending was written under its id in the table of its call. `AInv` adds that the n-th request of a table has the id n |
| `FramingProofs` | `MessagesAreWhole` | `FramingInv`: the bytes on the stream are the messages not returned, laid end to end, less the bytes the reader holds (`Laid`), and the reader holds the beginning of the very next message: some bytes of its length, or the length and the beginning of its body. Needs that both codings of a length are read back exactly (`LengthRoundTrip`, `VarintByte`) |
| `AndroidTvProofs` | `SecretsAreEarned`, `PairedMeansRecorded`, `KeysAreNegotiated`, `KeysAreSentOnce`, `PingsAreAnswered`, `StateIsLatest` | `PairingInv`: the transcript is a dialogue as long as the step says. `RemoteInv`: pongs are numbered, keys follow both replies, a call is in the channel or its key is sent, never both |
| `ReceiverLookupProofs` | `DevicesAreLive`, `RoutesAreKept`, `IdentityIsProven`, `RevokedIsRefused`, `ResponsesAreUnderstood`, `LookupIsTimely` | `DiscoveryInv`: the list is a function of the announcements so far, each device with the routes of those since it was listed, sorted (`Orders`). `LinkInv`: from the verification on, the identity is that of the one reply that was verified, for this connection's nonce and certificate. `QueryInv`: what has been read is the first bytes of the response and does not end it yet. Needs that what `response_extent` tells of the first bytes it tells of all that follow (`ExtentWithin`), through every turn of the chunk loop (`LoopingWithin`). `TimeInv`: the time a call has taken and the time left are together what it may take up to the step it is at; with `CallsInOrder`, since one clock serves all calls |

Two theorems say something about the code beyond their property. From
`WatchdogSafe` follows that `disarm_idle` never finds anything to disarm: a
watchdog is armed only while frames are in flight. And `AnswersSafe` has a
hypothesis, that there are no more calls than request ids: with 2^32 calls on one
connection the ids come round, and an answer that is late by as many requests is
taken for another. `WaitingSafe` needs no such hypothesis.

**Assumptions.** Each is named in the module that declares the constants, and TLC
evaluates it on the runs. `FRAME_ID_MODULUS` is even and more than twice the window.
A packet is not delivered more than half a modulus of ids after its frame, and a
feedback not more than a modulus after its checkpoint (`LifetimeAssumption`): this
one is about the network. The code does not enforce it, and at 60 frames per
second it allows datagrams seconds old. It is used only in `CastStreamProofs`;
`SenderLoopProofs` is about feedback of any content and age. Timers and channels
are not zero, the reserved event slots leave room for another, the later timeout
is not above the initial one, and inputs have their types. Every length the peer
announces fits in the bytes and in the groups it is sent in, and the longest that
is accepted leaves the last group of a varint at one bit
(`FramedReaderAssumption`, `VarintReaderAssumption`): 4 bytes of 256 values, 10
groups of 128 and 64 KiB in the code. A response that is said to be in good order
is one that `parse_http_response` and `response_extent` understand when they are
given all of it and nothing else (`WholeAssumption`); the theorem is about every
cut of it into reads and everything that may follow it within the limit on size. The theorems of `AndroidTvProofs`
and `FramingProofs` are about `AndroidTvSafety` and `FramingSafety`, the
specifications without their fairness.

**How the proofs are written.** Recursion over data is a recursive function, and a
fact about it for every length is proved from the least counterexample
(`LeastNat`), because the induction rules of the library cannot be instantiated
here. The modules the proofs reach do not extend `SequencesExt`: it brings in
`Bags`, whose definitions slow the prover down many times. Most leaves name Zenon,
which is fast on steps without arithmetic, and leave the others to SMT.

**Only model-checked.** The liveness properties `HeardFramesAreReleased`,
`FramesAreSettled`, `CallsReturn`, `SilentReceiverIsLeft`, `MessagesArrive`,
`AndroidTvCallsReturn` and `SessionCallsReturn`: fairness is beyond the prover. That a body is decoded to what its sender encoded is shown by the
`receiver` run, for the responses it enumerates (`WholeAssumption` is evaluated on
them): for every body it would take an induction over the chunks.

## Not modelled

Cryptography (`crypto.rs`, signatures, certificates as bytes), header layout, the
text of JSON and protobuf messages, NTP conversion, logging and plain records
hold no protocol state. The statistics query changes nothing. The extension of a
chunk size and the spaces around it are left out, and so is a `discover` with a
timeout of zero, which returns at once.

Known, and outside what the properties say: the retransmit queue has no bound
under repeated NACKs (`sender/stream.rs:321`); a `NeedsKeyFrame` event is dropped
when the channel is full (`sender/event_loop.rs:762`); a flush serves audio first
and may leave nothing for video (`sender/event_loop.rs:444`); a delta frame may
follow one that was refused (`sender/stream.rs:156`); an error without a request
id fails nobody (`control/mod.rs:1241`); a launch its caller gave up may start
after the connection is closed (`control/mod.rs:989`); a write that fails in the
teardown leaves later applications running (`control/mod.rs:1467`); a certificate
whose serial is 2^63 or more is in no range of a revocation list
(`control/auth.rs:532`); an
established remote reads without a deadline (`android_tv/remote_session.rs:306`);
what the setup port says is not covered by the authentication of the control
connection (`setup.rs`).
