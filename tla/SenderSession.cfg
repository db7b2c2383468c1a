SPECIFICATION FairSpec
CHECK_DEADLOCK FALSE
CONSTANTS
  Configurations <- SomeConfigurations
  Answers <- SomeAnswers
  Exercised <- TwoStreams
  AudioSources = {1}
  VideoSources = {2, 3}
  Calls = {c1, c2}
  Delays = {0, 2, 3, 4, 6}
  MILLISECOND = 2
  U16_MAX = 2
  U32_MAX = 3
  COMMAND_CAPACITY = 2
INVARIANTS
  OfferIsAsConfigured
  StartMatchesAnswer
  DelaysReachEveryStream
  FramesKeepOrder
  ShutdownReturnsResult
PROPERTIES
  SessionCallsReturn
