SPECIFICATION BudgetSpec
CONSTANTS
  BYTES_PER_SECOND = 3
  SECOND = 4
  BURST_INTERVAL = 6
  MAX_PACKET_SIZE = 3
  MaxElapsed = 9
  MaxPass = 2
INVARIANTS
  RefillIsExact
  SentWithinBudget
