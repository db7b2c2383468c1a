------------------------------ MODULE AckWindow ------------------------------
(* What one media stream promises, without packets, queues, wire ids or a     *)
(* network: frames are accepted in order while fewer than a window of ids     *)
(* separates the new frame from the oldest one not released; the receiver     *)
(* finishes frames in any order; a frame is released only once it is          *)
(* finished.  CastStream is shown to implement this.                          *)
EXTENDS Integers

CONSTANT WINDOW

VARIABLES
  accepted,   \* frames 0 .. accepted - 1 have been accepted
  finished,   \* the frames the receiver is finished with
  released    \* the frames the sender no longer holds

vars == <<accepted, finished, released>>

Init ==
  /\ accepted = 0
  /\ finished = {}
  /\ released = {}

\* The new frame and all frames still held are within one window.
Accept ==
  /\ \A f \in 0 .. accepted : f \in released \/ accepted - f < WINDOW
  /\ accepted' = accepted + 1
  /\ UNCHANGED <<finished, released>>

Finish(frame_id) ==
  /\ finished' = finished \cup {frame_id}
  /\ UNCHANGED <<accepted, released>>

Release(frame_ids) ==
  /\ frame_ids \subseteq finished
  /\ released' = released \cup frame_ids
  /\ UNCHANGED <<accepted, finished>>

Next ==
  \/ Accept
  \/ \E f \in 0 .. accepted - 1 : Finish(f)
  \/ \E F \in SUBSET (0 .. accepted - 1) : Release(F)

Spec == Init /\ [][Next]_vars
=============================================================================
