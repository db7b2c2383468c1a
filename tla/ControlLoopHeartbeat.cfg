SPECIFICATION Spec
CHECK_DEADLOCK FALSE
CONSTANTS
  None = None
  Calls = {c1}
  OperationKinds = {"Status"}
  Apps = {a}
  Transports = {t}
  MAX_ID = 2
  COMMAND_CAPACITY = 1
  HEARTBEAT_INTERVAL = 2
  HEARTBEAT_TIMEOUT = 6
  MaxBlocked = 3
INVARIANTS
  HeartbeatTimeoutMeansSilence
