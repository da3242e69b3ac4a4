\* Two calls that compete for one connection.
SPECIFICATION FairSpec
CONSTANTS
  k1 = k1
  k2 = k2
  Call = {k1, k2}
  PoolSize = 1
  MaxToolIterations = 2
  Lifetime = 1
  AllowedScopes <- MCAllowedScopes
  Sends <- MCSends
  None = None
INVARIANTS TypeOK OutsideIsGranted StubSettles ShownIsRunnable RatingsReachTheTable NoReplyIsLostToThePool
PROPERTIES CallsEnd ConnectionsComeBack
CHECK_DEADLOCK FALSE
