SPECIFICATION FairSpec
CONSTANTS
  None = None
  FRAME_ID_MODULUS = 6
  MAX_UNACKED_FRAMES = 2
  ALL_PACKETS_LOST = 2
  PacketCounts = {1, 2}
  MaxFrames = 3
  MaxFragmented = 1
  MaxReports = 1
  MaxNacks = 2
  MaxRetransmits = 2
  RTP_LIFETIME = 3
  RTCP_LIFETIME = 6
PROPERTIES
  ImplementsAckWindow
  HeardFramesAreReleased
