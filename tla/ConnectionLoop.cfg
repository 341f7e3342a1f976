CONSTANTS
  CHECKS = 3
  RETRY_SECS = 2
  MaxAttempts = 3
  MaxSyncs = 2
SPECIFICATION FairSpec
INVARIANT ConnectedMeansClient
PROPERTIES AlwaysReconnects UndisturbedHandshakeGivenUp
