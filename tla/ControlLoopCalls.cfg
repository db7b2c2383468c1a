SPECIFICATION Spec
CHECK_DEADLOCK FALSE
CONSTANTS
  None = None
  Calls = {c1, c2}
  OperationKinds = {"Availability", "Launch", "SetVolume", "Stop", "DeviceInfo", "EurekaInfo", "Offer", "Close"}
  Apps = {a}
  Transports = {t}
  MAX_ID = 2
  COMMAND_CAPACITY = 1
  HEARTBEAT_INTERVAL = 1
  HEARTBEAT_TIMEOUT = 1
  MaxBlocked = 0
INVARIANTS
  AnswersAreOwn
  LaunchedAppsAreStopped
