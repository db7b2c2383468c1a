SPECIFICATION LookupSpec
CHECK_DEADLOCK FALSE
CONSTANTS
  Services <- MCServices
  discovery_timeout = 2
  MaxEvents = 4
  Certificates <- MCCertificates
  Roots = {"Root", "Audio"}
  TlsCertificates <- MCTls
  Replies <- MCReplies
  MAX_TLS_CERTIFICATE_LIFETIME = 2
  REQUEST_TIMEOUT = 1
  Now = 10
  MaxConnects = 2
  Responses <- MCResponses
  READ_SIZE = 3
  MAX_HEADER_BYTES = 8
  MAX_RESPONSE_BYTES = 12
  MAX_LINE = 2
  SETUP_TIMEOUT = 2
INVARIANTS
  DevicesAreLive
  RoutesAreKept
  IdentityIsProven
  RevokedIsRefused
  ResponsesAreUnderstood
  LookupIsTimely
