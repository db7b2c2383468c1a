SPECIFICATION Spec
CONSTANTS
  None = None
  FRAME_ID_MODULUS = 6
  MAX_UNACKED_FRAMES = 2
  ALL_PACKETS_LOST = 3
  PacketCounts = {0, 1, 2}
  MaxFrames = 8
  MaxFragmented = 1
  MaxReports = 2
  MaxNacks = 1
  MaxRetransmits = 2
  RTP_LIFETIME = 3
  RTCP_LIFETIME = 6
INVARIANTS
  FramesAreAccountedFor
  WindowIsSound
  ReleasedFramesAreFinished
  WireIdsAreUnambiguous
PROPERTIES
  NoRegression
