----------------------------- MODULE BurstBudget -----------------------------
(* The pacing of outgoing packets: BurstBudget and the flush that spends it   *)
(* (src/src/sender/event_loop.rs).  A flush refills the budget from the time  *)
(* since the last refill and sends queued packets while any credit is left;   *)
(* every send awaits the socket, so time may pass inside a flush.  A packet   *)
(* is only its size.  The u128 and usize operations cannot saturate at the    *)
(* code's rate of 16 MiB per second, except consume's subtraction.            *)
EXTENDS Integers

CONSTANTS
  BYTES_PER_SECOND,   \* MAX_BURST_BITRATE / 8
  SECOND,             \* units of time in a second: 1_000_000_000 in the code
  BURST_INTERVAL,     \* units of time between two ticks of the burst timer
  MAX_PACKET_SIZE,    \* bytes of the largest datagram
  MaxElapsed,         \* bound: time since the budget was full
  MaxPass             \* bound: time between two steps

ASSUME RateAssumption ==
  {BYTES_PER_SECOND, SECOND, BURST_INTERVAL, MAX_PACKET_SIZE} \subseteq Nat \ {0}

ASSUME TimeBoundsAssumption == {MaxElapsed, MaxPass} \subseteq Nat

VARIABLES
  available_bytes,
  fractional_byte_nanos,
  unrefilled,   \* time since last_refill
  flush,        \* "Idle", "Refilled" (nothing sent so far) or "Sending"
  \* What has happened since a refill last filled the budget; the code does not
  \* keep these.
  since_full,   \* the time
  sent_bytes,   \* the bytes sent
  overrun,      \* the bytes sent without credit
  flushes       \* the flushes that sent something

budget == <<available_bytes, fractional_byte_nanos, unrefilled>>
ledger == <<since_full, sent_bytes, overrun, flushes>>
budget_vars == <<budget, flush, ledger>>

\* BurstBudget::new.
capacity_bytes ==
  LET bytes == (BYTES_PER_SECOND * BURST_INTERVAL) \div SECOND
  IN  IF bytes < 1 THEN 1 ELSE bytes

\* Credit at a refill, in bytes times SECOND, before it is limited.
scaled_bytes == unrefilled * BYTES_PER_SECOND + fractional_byte_nanos

\* The budget will be full after a refill.
fills ==
  \/ available_bytes = capacity_bytes
  \/ available_bytes + scaled_bytes \div SECOND >= capacity_bytes
-----------------------------------------------------------------------------
BudgetInit ==
  /\ available_bytes = capacity_bytes
  /\ fractional_byte_nanos = 0
  /\ unrefilled = 0
  /\ flush = "Idle"
  /\ since_full = 0 /\ sent_bytes = 0 /\ overrun = 0 /\ flushes = 0

\* A refill that forgets the fraction of a byte.
refill_truncating ==
  /\ unrefilled' = 0
  /\ fractional_byte_nanos' = 0
  /\ available_bytes' = IF fills THEN capacity_bytes ELSE available_bytes + scaled_bytes \div SECOND

\* BurstBudget::refill.
refill ==
  /\ unrefilled' = 0
  /\ fractional_byte_nanos' = IF fills THEN 0 ELSE scaled_bytes % SECOND
  /\ available_bytes' = IF fills THEN capacity_bytes ELSE available_bytes + scaled_bytes \div SECOND

has_credit == available_bytes # 0

\* A consume that takes nothing from a budget smaller than the packet.
consume_if_covered(bytes) ==
  available_bytes' = IF bytes > available_bytes THEN available_bytes ELSE available_bytes - bytes

\* BurstBudget::consume: what the budget does not cover is forgiven.
consume(bytes) ==
  available_bytes' = IF bytes > available_bytes THEN 0 ELSE available_bytes - bytes

\* flush_queued_packets begins.
BeginFlush ==
  /\ flush = "Idle"
  /\ flush' = "Refilled"
  /\ refill
  /\ IF fills
     THEN since_full' = 0 /\ sent_bytes' = 0 /\ overrun' = 0 /\ flushes' = 0
     ELSE UNCHANGED ledger

\* One turn of the loop in flush_stream_packets.
SendPacket(bytes) ==
  /\ flush # "Idle" /\ has_credit
  /\ flush' = "Sending"
  /\ consume(bytes)
  /\ sent_bytes' = sent_bytes + bytes
  /\ overrun' = IF bytes > available_bytes THEN overrun + (bytes - available_bytes) ELSE overrun
  /\ flushes' = IF flush = "Refilled" THEN flushes + 1 ELSE flushes
  /\ UNCHANGED <<fractional_byte_nanos, unrefilled, since_full>>

\* Both queues are empty or the credit is spent.
EndFlush ==
  /\ flush # "Idle"
  /\ flush' = "Idle"
  /\ UNCHANGED <<budget, ledger>>

\* Time passes, during a flush too.
Pass(time) ==
  /\ since_full + time <= MaxElapsed
  /\ since_full' = since_full + time
  /\ unrefilled' = unrefilled + time
  /\ UNCHANGED <<available_bytes, fractional_byte_nanos, flush, sent_bytes, overrun, flushes>>

BudgetNext ==
  \/ BeginFlush
  \/ \E bytes \in 1 .. MAX_PACKET_SIZE : SendPacket(bytes)
  \/ EndFlush
  \/ \E time \in 1 .. MaxPass : Pass(time)

BudgetSpec == BudgetInit /\ [][BudgetNext]_budget_vars
-----------------------------------------------------------------------------
\* Type and range of every variable.
BudgetTypeOK ==
  /\ available_bytes \in 0 .. capacity_bytes
  /\ fractional_byte_nanos \in 0 .. SECOND - 1
  /\ unrefilled \in Nat
  /\ flush \in {"Idle", "Refilled", "Sending"}
  /\ since_full \in Nat /\ sent_bytes \in Nat /\ overrun \in Nat /\ flushes \in Nat

\* However the refills fall, and however short the times between them, credit
\* is neither lost to rounding nor invented: since the budget was full, what
\* was granted is the rate times the time up to the last refill.
RefillIsExact ==
  SECOND * (available_bytes + sent_bytes - overrun) + fractional_byte_nanos
    = SECOND * capacity_bytes + BYTES_PER_SECOND * (since_full - unrefilled)

\* A flush goes over its credit with its last packet at most, so the bytes sent
\* since the budget was full stay within the rate, one full budget and less
\* than one packet per flush.
SentWithinBudget ==
  SECOND * sent_bytes <= SECOND * (capacity_bytes + flushes * (MAX_PACKET_SIZE - 1))
                   + BYTES_PER_SECOND * since_full
=============================================================================
