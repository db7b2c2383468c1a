SPECIFICATION Spec
CHECK_DEADLOCK FALSE
CONSTANTS
  None = None
  FRAME_ID_MODULUS = 4
  MAX_UNACKED_FRAMES = 1
  ALL_PACKETS_LOST = 2
  SENDER_REPORT_HISTORY = 1
  MINIMUM_IN_FLIGHT_MEDIA_DURATION = 1
  Kinds = {"Video"}
  AdaptiveKinds = {"Video"}
  OFFERED_PLAYOUT_DELAY = 6
  INITIAL_RECEIVER_ACKNOWLEDGEMENT_TIMEOUT = 1
  RECEIVER_ACKNOWLEDGEMENT_TIMEOUT = 1
  RECEIVER_TIMEOUT_POLL_INTERVAL = 1
  RTCP_REPORT_INTERVAL = 1
  STATISTICS_DEBOUNCE_INTERVAL = 2
  EVENT_CAPACITY = 3
  RESERVED_TERMINAL_EVENT_SLOTS = 2
  PacketCounts = {0, 1}
  TargetDelays = {3}
  LossFractions = {1}
  ReportDelays = {1}
  ReceiverDelays = {3}
  PictureLosses = {FALSE}
  Checkpoints = {0, 1, 2, 3}
  AckBits = {}
  NackIds = {}
  MaxNacks = 0
  MaxFrames = 1
  MaxRefused = 1
  MaxNackCount = 0
  MaxRetransmits = 0
INVARIANTS
  TerminalEventDelivered
  StatisticsAreCurrent
