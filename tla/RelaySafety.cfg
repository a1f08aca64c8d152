CONSTANTS
  s1 = s1
  s2 = s2
  s3 = s3
  NoSession = NoSession
  Sessions = {s1, s2}
  Endpoint <- LabAndBenchmark
  PoolSize = 1
  MayRaise = {s2}
  Messages = {"valid", "unknown", "blank", "malformed"}
  MaxRequests = 2
  MaxEvents = 2
SPECIFICATION Spec
INVARIANTS InOrderExactlyOnce PoolOwnership
PROPERTY SessionIsEventStream
CHECK_DEADLOCK FALSE
