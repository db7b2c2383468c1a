-------------------------- MODULE MCSenderSession --------------------------
(* An instance of SenderSession: offers of none to three streams, every       *)
(* answer of up to two streams, and calls after the answers that differ in    *)
(* what they support.                                                         *)
EXTENDS SenderSession, SequencesExt

Audio(delay) == [type |-> "Audio", target_delay |-> delay, sound |-> TRUE]
Video(delay) == [type |-> "Video", target_delay |-> delay, sound |-> TRUE]

\* Delays at both ends of what the wire can say and beyond, and of a fraction of
\* a millisecond.
SomeConfigurations ==
  {<< >>, <<Video(2)>>, <<Video(2), Audio(6)>>, <<Video(2), Audio(6), Video(4)>>,
   <<Audio(0)>>, <<Audio(2), Video(3)>>, <<Audio(8)>>, <<[Video(2) EXCEPT !.sound = FALSE]>>}

\* Index 4 is in no offer.  Source 0 is invalid; 1 and 2 are the sender's own.
AllAnswers ==
  [send_indexes   : SeqOf(1 .. 4, 2),
   sync_sources   : SeqOf({0, 1, 2, 8}, 2),
   rtp_extensions : {{}} \cup {{e} : e \in SeqOf(BOOLEAN, 2)},
   sound          : BOOLEAN]

Accept(indexes, adaptive) ==
  [send_indexes |-> indexes, sync_sources |-> SubSeq(<<8, 9>>, 1, Len(indexes)),
   rtp_extensions |-> {adaptive}, sound |-> TRUE]

Both == Accept(<<2, 1>>, <<TRUE, TRUE>>)
OneAdaptive == Accept(<<1, 2>>, <<TRUE, FALSE>>)

SomeAnswers == AllAnswers \cup {Both, OneAdaptive}

TwoStreams == {<<Video(2), Audio(6)>>} \X {Both, OneAdaptive}
=============================================================================
