SPECIFICATION FairSpec
CHECK_DEADLOCK FALSE
CONSTANTS
  None = None
  Calls = {c1, c2, c3}
  OperationKinds = {"Status", "Close"}
  Apps = {}
  Transports = {}
  MAX_ID = 2
  COMMAND_CAPACITY = 1
  HEARTBEAT_INTERVAL = 1
  HEARTBEAT_TIMEOUT = 1
  MaxBlocked = 1
INVARIANTS
  WaitingCallsArePending
PROPERTIES
  CallsReturn
  SilentReceiverIsLeft
