CONSTANTS
  s1 = s1
  s2 = s2
  s3 = s3
  NoSession = NoSession
  Sessions = {s1, s2, s3}
  Endpoint <- BenchmarkBesideInjections
  PoolSize = 2
  MayRaise = {s2, s3}
  Messages = {"valid"}
  MaxRequests = 1
  MaxEvents = 1
SPECIFICATION FairSpec
PROPERTY OtherConnectionsServed
CHECK_DEADLOCK FALSE
