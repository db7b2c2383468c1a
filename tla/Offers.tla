------------------------------- MODULE Offers -------------------------------
(* What is offered to a receiver (src/src/offer.rs): OfferBuilder::build and  *)
(* what Offer says of itself on the wire.  A configuration is its type, its   *)
(* target delay and whether its rates, channels and resolutions are `sound`.  *)
(* Codecs, keys and resolutions are carried along and left out.  Indexes      *)
(* start at 1, in the code at 0.                                              *)
EXTENDS Integers, Sequences, Functions

CONSTANTS
  MILLISECOND,        \* fractions of a millisecond: 10^6 in the code
  U32_MAX,
  AudioSources,       \* sync sources generate_audio may draw
  VideoSources        \* and generate_video

ASSUME OfferAssumption == {MILLISECOND, U32_MAX} \subseteq Nat \ {0}

StreamTypes == {"Audio", "Video"}

\* A bug: the limit of the wire is not looked at.
valid_target_delay_unlimited(delay) ==
  LET milliseconds == delay \div MILLISECOND
  IN  milliseconds > 0 /\ delay = milliseconds * MILLISECOND

valid_target_delay(delay) ==
  LET milliseconds == delay \div MILLISECOND
  IN  milliseconds \in 1 .. U32_MAX /\ delay = milliseconds * MILLISECOND

\* The configurations of one type, in the order of the calls of audio or video.
of_type(configurations, type) ==
  LET upto[n \in 0 .. Len(configurations)] ==
        IF n = 0 THEN << >>
        ELSE upto[n - 1] \o (IF configurations[n].type = type THEN <<configurations[n]>> ELSE << >>)
  IN  upto[Len(configurations)]

\* A stream has its place in the offer for its index.  The source is random.
stream_offer(configuration, source) ==
  [stream_type |-> configuration.type, sync_source |-> source, target_delay |-> configuration.target_delay]

\* build: the offers it may return, none when it fails.
build(configurations) ==
  LET streams == of_type(configurations, "Audio") \o of_type(configurations, "Video")
  IN  IF \/ configurations = << >>
         \/ \E i \in DOMAIN streams : ~streams[i].sound \/ ~valid_target_delay(streams[i].target_delay)
      THEN {}
      ELSE {[i \in DOMAIN streams |-> stream_offer(streams[i], sources[i])] :
              sources \in {s \in [DOMAIN streams -> AudioSources \cup VideoSources] :
                             \A i \in DOMAIN s :
                               s[i] \in IF streams[i].type = "Audio" THEN AudioSources ELSE VideoSources}}

\* Serialize for StreamOffer: the delay is `as u32` in milliseconds.
serialize(offer) ==
  [i \in DOMAIN offer |->
     [index |-> i, type |-> offer[i].stream_type, ssrc |-> offer[i].sync_source,
      targetDelay |-> (offer[i].target_delay \div MILLISECOND) % (U32_MAX + 1)]]
=============================================================================
