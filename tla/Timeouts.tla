------------------------------ MODULE Timeouts ------------------------------
(* timeout and Instant of tokio, which are external, as the calls of a lookup *)
(* use them: one call at a time, and in a call one timeout at a time.  What   *)
(* is timed ends at the latest when its time is up, with a result that comes  *)
(* just then or without one.                                                  *)
EXTENDS Naturals

VARIABLES
  remaining,   \* time until the timeout that runs is up
  elapsed      \* not in the code: time since the last call was made

clock == <<remaining, elapsed>>

\* A call is made, with its first timeout.
Call(duration) == remaining' = duration /\ elapsed' = 0

\* The call goes on, with another timeout.
timeout(duration) == remaining' = duration /\ UNCHANGED elapsed

Passes == remaining > 0 /\ remaining' = remaining - 1 /\ elapsed' = elapsed + 1
=============================================================================
