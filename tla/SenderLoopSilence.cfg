SPECIFICATION FairSpec
CHECK_DEADLOCK FALSE
CONSTANTS
  None = None
  FRAME_ID_MODULUS = 6
  MAX_UNACKED_FRAMES = 2
  ALL_PACKETS_LOST = 2
  SENDER_REPORT_HISTORY = 1
  MINIMUM_IN_FLIGHT_MEDIA_DURATION = 9
  Kinds = {"Audio", "Video"}
  AdaptiveKinds = {}
  OFFERED_PLAYOUT_DELAY = 3
  INITIAL_RECEIVER_ACKNOWLEDGEMENT_TIMEOUT = 2
  RECEIVER_ACKNOWLEDGEMENT_TIMEOUT = 1
  RECEIVER_TIMEOUT_POLL_INTERVAL = 1
  RTCP_REPORT_INTERVAL = 1
  STATISTICS_DEBOUNCE_INTERVAL = 1
  EVENT_CAPACITY = 2
  RESERVED_TERMINAL_EVENT_SLOTS = 1
  PacketCounts = {1}
  TargetDelays = {}
  LossFractions = {}
  ReportDelays = {}
  ReceiverDelays = {3}
  PictureLosses = {FALSE}
  Checkpoints = {0, 5}
  AckBits = {0}
  NackIds = {}
  MaxNacks = 0
  MaxFrames = 2
  MaxRefused = 0
  MaxNackCount = 0
  MaxRetransmits = 0
INVARIANTS
  TimeoutIsJustified
  SilenceIsDetected
PROPERTIES
  FramesAreSettled
