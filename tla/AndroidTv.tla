----------------------------- MODULE AndroidTv -----------------------------
(* An application that pairs with an Android TV and then controls it:         *)
(* PairingSession, then RemoteSession with the same identity.  The connection *)
(* of the remote is made by connect (src/src/android_tv/connection.rs) and    *)
(* lasts only if the device knows the client's certificate, from this pairing *)
(* or an earlier one.                                                         *)
EXTENDS RemoteSession, PairingSession

VARIABLE connected   \* whether the remote's connection has been made

android_tv_vars == <<vars, pairing_vars, connected>>

AndroidTvInit == PairingInit /\ Init /\ connected = FALSE

\* connect: a TCP connection and mutual TLS, each within CONNECT_TIMEOUT.  A
\* connection that fails changes nothing.
Connect ==
  /\ ~connected /\ pairing = "Idle" /\ recorded
  /\ connected' = TRUE
  /\ outcome' = "None" /\ pairings' = 0
  /\ UNCHANGED <<vars, pairing, from_device, recorded, transcript>>

Pairing(A) == ~connected /\ A /\ UNCHANGED <<vars, connected>>
Remote(A) == connected /\ A /\ UNCHANGED <<pairing_vars, connected>>

AndroidTvNext == Pairing(PairingNext) \/ Connect \/ Remote(Next)

AndroidTvSafety == AndroidTvInit /\ [][AndroidTvNext]_android_tv_vars

\* The deadlines of the exchange run out.  Callers are polled and the task of the
\* remote serves its commands: select! chooses at random among its ready arms.
\* Nothing is asked of the device.
AndroidTvSpec ==
  /\ AndroidTvSafety
  /\ WF_android_tv_vars(Pairing(PairingTimesOut)) /\ WF_android_tv_vars(Pairing(CloseWriter))
  /\ \A c \in Calls : WF_android_tv_vars(Remote(Send(c))) /\ WF_android_tv_vars(Remote(Proceed(c)))
  /\ SF_android_tv_vars(Remote(Command))
-----------------------------------------------------------------------------
\* Every call returns, whatever the device does or leaves undone: begin and finish
\* of a pairing, the keys sent to the remote and its close().
AndroidTvCallsReturn ==
  /\ step > 0 \/ pairing = "Closing" ~> pairing \in {"Idle", "Begun"}
  /\ \A c \in Calls : calls[c].phase = "Sending" ~> calls[c].phase = "Done"
=============================================================================
