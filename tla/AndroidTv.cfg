SPECIFICATION AndroidTvSpec
CHECK_DEADLOCK FALSE
CONSTANTS
  None = None
  Calls = {c1, c2}
  Announcements = {{"KEY"}, {"KEY", "POWER", "IME"}}
  IMPLEMENTED_FEATURES = {"KEY", "POWER"}
  Volumes = {v1}
  MAX_HANDSHAKE_MESSAGES = 2
  COMMAND_QUEUE_CAPACITY = 1
  MaxFields = 2
  MaxMessages = 1
  MaxPings = 2
  MaxPairings = 2
  MaxUnread = 2
INVARIANTS
  KeysAreNegotiated
  PingsAreAnswered
  StateIsLatest
  KeysAreSentOnce
  SecretsAreEarned
  PairedMeansRecorded
PROPERTIES
  AndroidTvCallsReturn
